---- MODULE Spec2Model ----
(***************************************************************************)
(* wiscopy: the chunked concurrent bulk-fetch pipeline.                    *)
(*                                                                         *)
(*   data.py     gather_async_bulk_measure_data, async_bulk_measures,      *)
(*               bulk_fetch, datetime_at_station_in_utc                    *)
(*               all_data_for_station, fetch_data_multiple_stations        *)
(*   process.py  bulk_measures_to_df, multiple_bulk_measures_to_df,        *)
(*               filter_fields                                             *)
(*   interface.py  WisconetStation.fields, get_field_names, fetch_data,    *)
(*               Wisconet.get_station, nearest_stations, get_data          *)
(*                                                                         *)
(* Time is counted in ticks (the resolution of a Python datetime).  A      *)
(* second is TicksPerSec ticks and a day is SecsPerDay seconds, so that    *)
(* ranges that are not a whole number of days, and instants that are not   *)
(* on a whole second, both occur within small bounds.                      *)
(***************************************************************************)
EXTENDS Integers, Sequences, FiniteSets, TLC

\* ------------------------------------------------------------------ bounds
TicksPerSec == 2
SecsPerDay == 3
\* the chunker's inputs (ChunkSpec): start, end in 0..MaxTime, chunk_days in 1..MaxChunkDays
MaxTime == 26
MaxChunkDays == 3
\* the reshaper's inputs (ReshapeSpec): field ids in 1..MaxFieldId, a catalog of at most
\* MaxFieldId fields, at most MaxEntries DataByTime entries of at most MaxMeasures
\* pairs, collection_time in 0..MaxEpoch, lists of at most MaxBms BulkMeasures
MaxFieldId == 2
MaxEntries == 2
MaxMeasures == 2
MaxEpoch == 7
MaxBms == 2
\* bulk_fetch's inputs (Spec): start_time in 0..MaxStart and end_time in
\* 0..MaxSpan (station wall-clock ticks), duration_days in
\* 1..MaxDurationDays, limits None or max_connections in 1..MaxLimit
MaxStart == 1
MaxSpan == 31
MaxDurationDays == 2
MaxLimit == 2
\* the wall-clock readings a str can hold: 0..MaxWall
MaxWall == 40
\* the facade's inputs (FacadeSpec): all_data_for_station is called at most MaxAge
\* ticks after the station's earliest_api_date
MaxAge == 13
\* filter_fields (QuerySpec): lists of at most MaxFieldsArg fields, at most MaxCriteria criteria
MaxFieldsArg == 2
MaxCriteria == 2
\* nearest_stations (QuerySpec): at most MaxStations stations at latitudes 0..MaxLat,
\* range in 0..MaxRange, n in 0..MaxN
MaxStations == 3
MaxLat == 2
MaxRange == 2
MaxN == 2
\* StationSpec: at most MaxCalls calls on the station
MaxCalls == 4

\* ------------------------------------------------------- program constants
\* httpx.Limits(max_keepalive_connections=5, max_connections=5)
DefaultMaxConnections == 5
\* duration_days: int = 30
DefaultDurationDays == 30

TicksPerDay == TicksPerSec * SecsPerDay

\* None where a string is expected (tz). An optional value of another type is a
\* sequence: <<>> for None, <<v>> for the value v.
None == "None"
Some(v) == <<v>>

\* ----------------------------------------------------------------- helpers
RECURSIVE SumSeq(_)
SumSeq(s) == IF s = <<>> THEN 0 ELSE Head(s) + SumSeq(Tail(s))

RECURSIVE Concat(_)
Concat(ss) == IF ss = <<>> THEN <<>> ELSE Head(ss) \o Concat(Tail(ss))

\* Python's range(0, stop) as a sequence 0, 1, ..., stop-1 (empty when stop <= 0)
Range(stop) == IF stop <= 0 THEN <<>> ELSE [k \in 1..stop |-> k - 1]

\* [f(x) for x in s]
SeqMap(F(_), s) == [k \in 1..Len(s) |-> F(s[k])]

\* ------------------------------------------------------------- the chunker
\* timedelta(days=d), in ticks
timedelta(d) == d * TicksPerDay

\* (end_time - start_time).days: whole days of the difference, rounded down
TimedeltaDays(delta) == delta \div TicksPerDay

\* the stop of range(0, total_time_delta.days // chunk_days + 1)
RangeStopNoPlusOne(total_days, chunk_days) == total_days \div chunk_days

RangeStop(total_days, chunk_days) == total_days \div chunk_days + 1

\* the sub_start of chunk i
SubStartDayStep(start_time, chunk_days, i) == start_time + timedelta(i)

SubStart(start_time, chunk_days, i) == start_time + timedelta(i * chunk_days)

\* the sub_end of chunk i: a whole chunk, or end_time where the chunk would pass it
SubEndNoClip(start_time, end_time, chunk_days, i) ==
    start_time + timedelta((i + 1) * chunk_days)

SubEnd(start_time, end_time, chunk_days, i) ==
    IF start_time + timedelta((i + 1) * chunk_days) < end_time
    THEN start_time + timedelta((i + 1) * chunk_days)
    ELSE end_time

\* task_start_and_end_dts of gather_async_bulk_measure_data
TaskStartAndEndDtsNoFilter(start_time, end_time, chunk_days) ==
    LET total_time_delta == end_time - start_time
        idx == Range(RangeStop(TimedeltaDays(total_time_delta), chunk_days))
    IN  SeqMap(LAMBDA i : <<SubStart(start_time, chunk_days, i),
                            SubEnd(start_time, end_time, chunk_days, i)>>,
               idx)

TaskStartAndEndDts(start_time, end_time, chunk_days) ==
    LET total_time_delta == end_time - start_time
        idx == Range(RangeStop(TimedeltaDays(total_time_delta), chunk_days))
        keep(i) == SubStart(start_time, chunk_days, i) < end_time
    IN  SeqMap(LAMBDA i : <<SubStart(start_time, chunk_days, i),
                            SubEnd(start_time, end_time, chunk_days, i)>>,
               SelectSeq(idx, keep))

\* ------------------------------------------------------------- time zones
\* A zone is known by the UTC offset (in seconds) it has at each UTC instant.
\* "America/Chicago" stands for a zone with daylight saving time: the offset is one
\* step nearer to UTC between DstStartUtc and DstEndUtc.
Zones == {"UTC", "America/Chicago"}

DstStartUtc == SecsPerDay
DstEndUtc == 2 * SecsPerDay

UtcOffsetAt(tz, utc) ==
    IF tz = "UTC" THEN 0
    ELSE IF DstStartUtc <= utc /\ utc < DstEndUtc THEN 0 - 1 ELSE 0 - 2

\* A timestamp is what pandas shows of it: the wall-clock reading and, unless it is
\* naive, the offset of that reading from UTC and the zone.
Instant(ts) == ts.wall - ts.utcoffset

\* pd.to_datetime(collection_time, unit="s"): a naive timestamp reading the UTC clock
ToDatetimeUnitS(collection_time) ==
    [wall |-> collection_time]

\* pd.to_datetime(column, utc=True): a naive timestamp is taken to read the UTC clock
ToDatetimeUtc(ts) ==
    IF "utcoffset" \notin DOMAIN ts
    THEN [wall |-> ts.wall, utcoffset |-> 0, tz |-> "UTC"]
    ELSE [wall |-> Instant(ts), utcoffset |-> 0, tz |-> "UTC"]

\* Series.dt.tz_localize-like relabelling: the reading kept, the zone attached
TzRelabel(ts, tz) ==
    [wall |-> ts.wall, utcoffset |-> UtcOffsetAt(tz, ts.wall), tz |-> tz]

\* Series.dt.tz_convert(tz): the same instant, read on the clock of tz
TzConvert(ts, tz) ==
    [wall |-> Instant(ts) + UtcOffsetAt(tz, Instant(ts)),
     utcoffset |-> UtcOffsetAt(tz, Instant(ts)),
     tz |-> tz]

\* ------------------------------------------------------------ the reshaper
\* schema.Field, cut to its key and one metadata column
Field(id, standard_name) == [id |-> id, standard_name |-> standard_name]

\* schema.BulkMeasures
BulkMeasures(fieldlist, data) == [fieldlist |-> fieldlist, data |-> data]

\* Field.model_dump()
ModelDump(field) == [id |-> field.id, standard_name |-> field.standard_name]

\* a | b on dicts: the keys of both, b's value where both have the key
DictUnion(a, b) == b @@ a

\* {field.id: field for field in bms.fieldlist}: a later field replaces an earlier
\* one of the same id
FieldLookup(fieldlist) ==
    [i \in {fieldlist[k].id : k \in 1..Len(fieldlist)} |->
        fieldlist[CHOOSE k \in 1..Len(fieldlist) :
            /\ fieldlist[k].id = i
            /\ \A j \in 1..Len(fieldlist) : fieldlist[j].id = i => j <= k]]

\* field_lookup[field_id] raises KeyError for some measure of the record
LookupFails(bms) ==
    \E m \in 1..Len(bms.data) : \E k \in 1..Len(bms.data[m].measures) :
        bms.data[m].measures[k][1] \notin DOMAIN FieldLookup(bms.fieldlist)

\* the row of one measure of one collection
MeasureRow(field_lookup, collection, measure) ==
    DictUnion([collection_time |-> ToDatetimeUnitS(collection.collection_time),
               value |-> measure[2]],
              ModelDump(field_lookup[measure[1]]))

\* the rows of one collection, in the order of its measures
CollectionRowsDropUnknown(field_lookup, collection) ==
    SeqMap(LAMBDA measure : MeasureRow(field_lookup, collection, measure),
           SelectSeq(collection.measures, LAMBDA measure : measure[1] \in DOMAIN field_lookup))

\* (as if rows.append(row) stood after the inner loop: the last measure only)
CollectionRowsLastOnly(field_lookup, collection) ==
    IF collection.measures = <<>> THEN <<>>
    ELSE <<MeasureRow(field_lookup, collection,
                      collection.measures[Len(collection.measures)])>>

CollectionRows(field_lookup, collection) ==
    SeqMap(LAMBDA measure : MeasureRow(field_lookup, collection, measure),
           collection.measures)

\* rows, as built by the two loops over bms.data and collection.measures
BuildRows(bms) ==
    Concat(SeqMap(LAMBDA collection : CollectionRows(FieldLookup(bms.fieldlist), collection),
                  bms.data))

\* df["station_id"] = station_id, when station_id is not empty
WithStationIdNever(rows, station_id) == rows

WithStationId(rows, station_id) ==
    IF station_id # ""
    THEN SeqMap(LAMBDA row : DictUnion(row, [station_id |-> station_id]), rows)
    ELSE rows

\* the collection_time column made UTC, and converted to tz when one is given
LocalizeRelabel(row, tz) ==
    IF tz # None
    THEN [row EXCEPT !.collection_time = TzRelabel(ToDatetimeUtc(@), tz)]
    ELSE [row EXCEPT !.collection_time = ToDatetimeUtc(@)]

Localize(row, tz) ==
    IF tz # None
    THEN [row EXCEPT !.collection_time = TzConvert(ToDatetimeUtc(@), tz)]
    ELSE [row EXCEPT !.collection_time = ToDatetimeUtc(@)]

\* what a call gives: a table (kind "DataFrame", its rows in order), the empty
\* sentinel (kind "None") or an exception (kind: the exception's name)
DataFrame(rows) == [kind |-> "DataFrame", rows |-> rows]
NoData == [kind |-> "None", rows |-> <<>>]
Raised(exception) == [kind |-> exception, rows |-> <<>>]

\* df.empty of pd.DataFrame(rows)
IsEmptyNever(rows) == FALSE

IsEmpty(rows) == Len(rows) = 0

bulk_measures_to_df_drop(bms, tz, station_id) ==
    LET rows == Concat(SeqMap(LAMBDA collection :
                    CollectionRowsDropUnknown(FieldLookup(bms.fieldlist), collection), bms.data))
    IN  IF IsEmpty(rows) THEN NoData
        ELSE DataFrame(SeqMap(LAMBDA row : Localize(row, tz), WithStationId(rows, station_id)))

bulk_measures_to_df(bms, tz, station_id) ==
    IF LookupFails(bms) THEN Raised("KeyError")
    ELSE LET rows == BuildRows(bms)
         IN  IF IsEmpty(rows) THEN NoData
             ELSE DataFrame(SeqMap(LAMBDA row : Localize(row, tz),
                                   WithStationId(rows, station_id)))

\* (as if the concatenated table kept the first row of each collection_time only)
multiple_bulk_measures_to_df_dedup(bulk_measures_list, tz, station_id) ==
    LET each == SeqMap(LAMBDA bm : bulk_measures_to_df(bm, tz, station_id), bulk_measures_list)
        failed == {k \in 1..Len(each) : each[k].kind \notin {"DataFrame", "None"}}
        dfs == SelectSeq(each, LAMBDA df : df.kind # "None")
        rows == Concat(SeqMap(LAMBDA df : df.rows, dfs))
        first == {k \in 1..Len(rows) :
                     \A j \in 1..(k - 1) : rows[j].collection_time # rows[k].collection_time}
    IN  IF failed # {} THEN each[CHOOSE k \in failed : \A j \in failed : k <= j]
        ELSE IF dfs = <<>> THEN NoData
        ELSE DataFrame(Concat([k \in 1..Len(rows) |->
                                  IF k \in first THEN <<rows[k]>> ELSE <<>>]))

\* (as if every record were reshaped against the fieldlists of all records)
multiple_bulk_measures_to_df_shared(bulk_measures_list, tz, station_id) ==
    LET fieldlists == Concat(SeqMap(LAMBDA bm : bm.fieldlist, bulk_measures_list))
        each == SeqMap(LAMBDA bm : bulk_measures_to_df(BulkMeasures(fieldlists, bm.data),
                                                       tz, station_id),
                       bulk_measures_list)
        failed == {k \in 1..Len(each) : each[k].kind \notin {"DataFrame", "None"}}
        dfs == SelectSeq(each, LAMBDA df : df.kind # "None")
    IN  IF failed # {} THEN each[CHOOSE k \in failed : \A j \in failed : k <= j]
        ELSE IF dfs = <<>> THEN NoData
        ELSE DataFrame(Concat(SeqMap(LAMBDA df : df.rows, dfs)))

\* multiple_bulk_measures_to_df: the tables of the records that have one, appended in
\* list order; the first record that raises ends the call
multiple_bulk_measures_to_df(bulk_measures_list, tz, station_id) ==
    LET each == SeqMap(LAMBDA bm : bulk_measures_to_df(bm, tz, station_id), bulk_measures_list)
        failed == {k \in 1..Len(each) : each[k].kind \notin {"DataFrame", "None"}}
        dfs == SelectSeq(each, LAMBDA df : df.kind # "None")
    IN  IF failed # {} THEN each[CHOOSE k \in failed : \A j \in failed : k <= j]
        ELSE IF dfs = <<>> THEN NoData
        ELSE DataFrame(Concat(SeqMap(LAMBDA df : df.rows, dfs)))


\* ------------------------------------------------- station time and the remote
\* ZoneInfo(tz).utcoffset(dt) of a naive wall-clock reading (fold=0), in ticks: in
\* the hour skipped when daylight saving time starts the offset of before is used,
\* in the hour repeated when it ends the first of the two readings is meant
WallOffset(tz, wall) ==
    IF tz = "UTC" THEN 0
    ELSE IF /\ (DstStartUtc - 1) * TicksPerSec <= wall
            /\ wall < (DstEndUtc - 1) * TicksPerSec
         THEN (0 - 1) * TicksPerSec
         ELSE (0 - 2) * TicksPerSec

\* A datetime is known by its wall-clock reading, in ticks: replace(tzinfo=...) keeps
\* the reading and discards the tzinfo the datetime had, if it had one. A str holds
\* the text of a reading.
Datetime(wall) == [wall |-> wall]
Str(text) == [text |-> text]

\* isinstance(dt, str)
IsStr(dt) == "text" \in DOMAIN dt

\* datetime.isoformat() of a naive datetime: the date (here the day number), "T", the
\* time of day (here its seconds) and, when they are not zero, the microseconds (here
\* the ticks)
isoformat(wall) ==
    ToString(wall \div TicksPerDay) \o "T" \o ToString((wall % TicksPerDay) \div TicksPerSec)
        \o (IF wall % TicksPerSec = 0 THEN "" ELSE "." \o ToString(wall % TicksPerSec))

\* datetime.fromisoformat(text): the reading that text is the ISO format of
fromisoformat(text) == Datetime(CHOOSE wall \in 0..MaxWall : isoformat(wall) = text)

\* (as if the reading were taken to be UTC already)
datetime_at_station_in_utc_naive(station, dt) ==
    LET d == IF IsStr(dt) THEN fromisoformat(dt.text) ELSE dt
    IN  d.wall

\* datetime_at_station_in_utc: dt.replace(tzinfo=ZoneInfo(tz)).astimezone(timezone.utc),
\* the UTC reading in ticks
datetime_at_station_in_utc(station, dt) ==
    LET d == IF IsStr(dt) THEN fromisoformat(dt.text) ELSE dt
    IN  d.wall - WallOffset(station.station_timezone, d.wall)

\* int(dt.timestamp()) of a UTC datetime at or after the epoch
Epoch(dt) == dt \div TicksPerSec

\* `if fields:` of an optional list: neither None nor empty
TruthyNotNone(optional_list) == optional_list # <<>>

Truthy(optional_list) == optional_list # <<>> /\ optional_list[1] # <<>>

\* ",".join(fields): the names in order, a comma between two
RECURSIVE Join(_)
Join(names) ==
    IF Len(names) = 0 THEN ""
    ELSE IF Len(names) = 1 THEN names[1]
    ELSE names[1] \o "," \o Join(Tail(names))

\* the query parameters of one call (async_bulk_measures): the fields key is present
\* only when fields is given and not empty
RequestParamsEndInclusive(station_id, start_time, end_time, fields) ==
    [station_id |-> station_id,
     start_time |-> Epoch(start_time),
     end_time |-> Epoch(end_time) + 1]
    @@ (IF Truthy(fields) THEN [fields |-> Join(fields[1])] ELSE <<>>)

RequestParams(station_id, start_time, end_time, fields) ==
    [station_id |-> station_id,
     start_time |-> Epoch(start_time),
     end_time |-> Epoch(end_time)]
    @@ (IF Truthy(fields) THEN [fields |-> Join(fields[1])] ELSE <<>>)

\* The remote: the station reports both fields of its catalog at every whole second.
\* A call is answered with the instants start_time <= t < end_time the remote holds
\* data of the station for and, of the
\* catalog, the fields asked for (all of them when no fields parameter is sent).
StationCatalog ==
    <<Field(1, "60min_air_temp_f_avg"), Field(2, "60min_dew_point_f_avg")>>

RemoteValue(t, id) == 10 * t + id

\* the first instant the remote holds data of a station for: station MAPL started
\* reporting late
RemoteFirstInstant(station_id) ==
    IF station_id = "MAPL" THEN Epoch(MaxWall) - 2 ELSE 0

\* the lists of names the remote tells apart in a fields parameter
FieldNameLists ==
    LET names == {StationCatalog[k].standard_name : k \in 1..Len(StationCatalog)}
    IN  UNION {[1..n -> names] : n \in 0..Len(StationCatalog)}

\* the fields parameter split at its commas
SplitFields(joined) == CHOOSE names \in FieldNameLists : Join(names) = joined

RemoteAnswer(params) ==
    LET fieldlist == IF "fields" \notin DOMAIN params THEN StationCatalog
                     ELSE SelectSeq(StationCatalog,
                            LAMBDA f : \E k \in 1..Len(SplitFields(params.fields)) :
                                          SplitFields(params.fields)[k] = f.standard_name)
        first == IF params.start_time > RemoteFirstInstant(params.station_id)
                 THEN params.start_time
                 ELSE RemoteFirstInstant(params.station_id)
        instants == IF params.end_time > first
                    THEN [k \in 1..(params.end_time - first) |-> first + k - 1]
                    ELSE <<>>
    IN  BulkMeasures(fieldlist,
            SeqMap(LAMBDA t : [collection_time |-> t,
                               measures |-> SeqMap(LAMBDA f : <<f.id, RemoteValue(t, f.id)>>,
                                                   fieldlist)],
                   instants))

\* ------------------------------------------------------- the connection pool
\* the max_connections of the limits the client is built with (bulk_fetch)
MaxConnectionsOfClientDefault(limits) == 100

MaxConnections(limits) == IF limits = <<>> THEN DefaultMaxConnections ELSE limits[1]

\* asyncio.gather's result: the children's results in the order the awaitables
\* were passed
GatherInArrivalOrder(responses, arrival) ==
    [k \in 1..Len(arrival) |-> responses[arrival[k]][1]]

GatherResults(responses, arrival) == [k \in 1..Len(responses) |-> responses[k][1]]

\* ------------------------------------------------------- the inputs drawn
FieldIds == 1..MaxFieldId

\* the sequences of field ids of length 0..n
IdSeqs(n) == UNION {[1..k -> FieldIds] : k \in 0..n}

\* A catalog with the given ids. Record j's k-th field is named <<j, k>>: two fields
\* of one id, and the catalogs of two records, never share their metadata.
Catalog(j, ids) == [k \in 1..Len(ids) |-> Field(ids[k], <<j, k>>)]

\* the value of the k-th measure of the m-th entry: all different within a record
ValueAt(m, k) == 10 * m + k

\* M entries at base, base + 1, ..., each with the measures of the given ids
Data(base, M, ids) ==
    [m \in 1..M |-> [collection_time |-> base + m - 1,
                     measures |-> [k \in 1..Len(ids) |-> <<ids[k], ValueAt(m, k)>>]]]

\* one record of any shape within the bounds, its entries from instant 0 on
WideRecords ==
    {BulkMeasures(Catalog(1, cat), Data(0, M, ids)) :
        cat \in IdSeqs(MaxFieldId), M \in 0..MaxEntries, ids \in IdSeqs(MaxMeasures)}

\* one record of one field, its entries from any instant on
TimedRecords ==
    {BulkMeasures(Catalog(1, <<1>>), Data(base, M, <<1>>)) :
        base \in 0..MaxEpoch, M \in 1..MaxEntries}

\* the shapes of the records of a longer list: a catalog of at most one field, and
\* no entry or one entry (at instant 0) of at most one measure
NarrowShapes ==
    {<<cat, M, ids>> : cat \in IdSeqs(1), M \in 0..1, ids \in IdSeqs(1)}

NarrowLists ==
    {[j \in 1..Len(shapes) |->
          BulkMeasures(Catalog(j, shapes[j][1]), Data(0, shapes[j][2], shapes[j][3]))] :
        shapes \in UNION {[1..n -> NarrowShapes] : n \in 0..MaxBms}}

StationIds == {"", "ALTN"}

VARIABLES
    \* ChunkSpec: one evaluation of the chunk list
    c_pc, c_start, c_end, c_days, c_chunks,
    \* ReshapeSpec: a list of BulkMeasures, the tz and station_id passed, the result
    \* of bulk_measures_to_df on each record and of multiple_bulk_measures_to_df
    r_pc, r_list, r_tz, r_station_id, r_each, r_multi,
    \* Spec: one bulk_fetch call
    station, start_time, end_time, fields, duration_days, limits,  \* its arguments
    pc,                       \* "call", "gather" (suspended in asyncio.gather), "returned", "raised"
    task_start_and_end_dts,   \* the chunk list
    task,                     \* per chunk: "waiting" (for a pool slot), "in_flight", "done", "failed", "cancelled"
    requests,                 \* per chunk: the parameters of the requests sent, in order
    responses,                \* per chunk: the BulkMeasures its call returned (<<>> before)
    arrival,                  \* the chunks in the order their calls completed
    http_errors,              \* the chunks whose call failed
    bulk_measures,            \* the list asyncio.gather returned
    result,                   \* what bulk_fetch returned or raised
    clients,                  \* the AsyncClients created so far, in order
    \* FacadeSpec: one call of datetime_at_station_in_utc, WisconetStation.fetch_data,
    \* all_data_for_station or Wisconet.get_data
    i_call,                   \* the function called and its arguments
    i_pc,                     \* "input", "loop", "bulk_fetch", "done", "raised"
    i_utc,                    \* what datetime_at_station_in_utc returned
    i_requests,               \* the requests WisconetStation.fetch_data sent
    i_remaining,              \* get_data: the stations still to fetch
    i_dfs,                    \* fetch_data_multiple_stations: station_dfs
    i_result,                 \* what the call returned or raised
    \* QuerySpec: one call of filter_fields or Wisconet.nearest_stations
    q_call,                   \* the function called and its arguments
    q_pc,                     \* "input", "done"
    q_result,                 \* the list the call returned
    \* StationSpec: fields() and get_field_names() calls on one WisconetStation
    w_fields,                 \* self._fields (<<>> for None)
    w_fetched,                \* the catalogs station_fields returned, in order
    w_calls,                  \* the number of calls made
    w_last                    \* the last call and what it returned

chunkVars == <<c_pc, c_start, c_end, c_days, c_chunks>>
reshapeVars == <<r_pc, r_list, r_tz, r_station_id, r_each, r_multi>>
fetchArgs == <<station, start_time, end_time, fields, duration_days, limits>>
fetchVars == <<fetchArgs, pc, task_start_and_end_dts, task, requests, responses, arrival,
               http_errors, bulk_measures, result, clients>>
facadeVars == <<i_call, i_pc, i_utc, i_requests, i_remaining, i_dfs, i_result>>
queryVars == <<q_call, q_pc, q_result>>
stationVars == <<w_fields, w_fetched, w_calls, w_last>>
vars == <<chunkVars, reshapeVars, fetchVars, facadeVars, queryVars, stationVars>>

ChunkIdle ==
    /\ c_pc = "idle"
    /\ c_start = 0
    /\ c_end = 0
    /\ c_days = 1
    /\ c_chunks = <<>>

ReshapeIdle ==
    /\ r_pc = "idle"
    /\ r_list = <<>>
    /\ r_tz = None
    /\ r_station_id = ""
    /\ r_each = <<>>
    /\ r_multi = NoData

FetchIdle ==
    /\ pc = "idle"
    /\ station = [station_id |-> "ALTN", station_timezone |-> "UTC"]
    /\ start_time = Datetime(0)
    /\ end_time = Datetime(0)
    /\ fields = <<>>
    /\ duration_days = 1
    /\ limits = <<>>
    /\ task_start_and_end_dts = <<>>
    /\ task = <<>>
    /\ requests = <<>>
    /\ responses = <<>>
    /\ arrival = <<>>
    /\ http_errors = {}
    /\ bulk_measures = <<>>
    /\ result = NoData
    /\ clients = <<>>

FacadeIdle ==
    /\ i_call = [op |-> "none"]
    /\ i_pc = "idle"
    /\ i_utc = 0
    /\ i_requests = <<>>
    /\ i_remaining = <<>>
    /\ i_dfs = <<>>
    /\ i_result = NoData

QueryIdle ==
    /\ q_call = [op |-> "none"]
    /\ q_pc = "idle"
    /\ q_result = <<>>

StationIdle ==
    /\ w_fields = <<>>
    /\ w_fetched = <<>>
    /\ w_calls = 0
    /\ w_last = [op |-> "none"]

\* ----------------------------------------------------------------- ChunkSpec
\* the ranges drawn, and the documented one: 62 days from the epoch, 30 days a chunk
ChunkInputs ==
    {<<s, e, d>> : s \in 0..MaxTime, e \in 0..MaxTime, d \in 1..MaxChunkDays}
        \cup {<<0, timedelta(62), 30>>}

ChunkInit ==
    /\ c_pc = "input"
    /\ \E input \in ChunkInputs :
          /\ c_start = input[1]
          /\ c_end = input[2]
          /\ c_days = input[3]
    /\ c_chunks = <<>>
    /\ ReshapeIdle
    /\ FetchIdle
    /\ FacadeIdle
    /\ QueryIdle
    /\ StationIdle

ComputeChunks ==
    /\ c_pc = "input"
    /\ c_chunks' = TaskStartAndEndDts(c_start, c_end, c_days)
    /\ c_pc' = "chunked"
    /\ UNCHANGED <<stationVars, queryVars, c_start, c_end, c_days, reshapeVars, fetchVars, facadeVars>>

ChunkNext == ComputeChunks

ChunkSpec == ChunkInit /\ [][ChunkNext]_vars

\* --------------------------------------------------------------- ReshapeSpec
ReshapeInit ==
    /\ r_pc = "input"
    /\ r_list \in {<<bms>> : bms \in WideRecords \cup TimedRecords} \cup NarrowLists
    /\ r_tz \in {None} \cup Zones
    /\ r_station_id \in StationIds
    /\ r_each = <<>>
    /\ r_multi = NoData
    /\ ChunkIdle
    /\ FetchIdle
    /\ FacadeIdle
    /\ QueryIdle
    /\ StationIdle

\* the caller reshapes the records one by one and all at once
Reshape ==
    /\ r_pc = "input"
    /\ r_each' = SeqMap(LAMBDA bms : bulk_measures_to_df(bms, r_tz, r_station_id), r_list)
    /\ r_multi' = multiple_bulk_measures_to_df(r_list, r_tz, r_station_id)
    /\ r_pc' = "done"
    /\ UNCHANGED <<stationVars, queryVars, r_list, r_tz, r_station_id, chunkVars, fetchVars, facadeVars>>

ReshapeNext == Reshape

ReshapeSpec == ReshapeInit /\ [][ReshapeNext]_vars

\* ---------------------------------------------------------------------- Spec
\* One call of bulk_fetch(station, start_time, end_time, fields, duration_days,
\* timeout, limits), start_time and end_time being wall-clock readings at the station.
\* the fields argument: None, the empty list, one name, two names not in the order
\* of the catalog
FieldsArguments ==
    {<<>>, Some(<<>>), Some(<<"60min_air_temp_f_avg">>),
     Some(<<"60min_dew_point_f_avg", "60min_air_temp_f_avg">>)}

Stations == {[station_id |-> "ALTN", station_timezone |-> "America/Chicago"]}

Init ==
    /\ pc = "call"
    /\ station \in Stations
    /\ start_time \in {Datetime(wall) : wall \in 0..MaxStart}
    /\ end_time \in {Datetime(wall) : wall \in 0..MaxSpan}
    /\ fields \in FieldsArguments
    /\ duration_days \in 1..MaxDurationDays
    /\ limits \in {<<>>} \cup {Some(n) : n \in 1..MaxLimit}
    /\ task_start_and_end_dts = <<>>
    /\ task = <<>>
    /\ requests = <<>>
    /\ responses = <<>>
    /\ arrival = <<>>
    /\ http_errors = {}
    /\ bulk_measures = <<>>
    /\ result = NoData
    /\ clients = <<>>
    /\ ChunkIdle
    /\ ReshapeIdle
    /\ FacadeIdle
    /\ QueryIdle
    /\ StationIdle

start_time_utc == datetime_at_station_in_utc(station, start_time)
end_time_utc == datetime_at_station_in_utc(station, end_time)

Chunks == 1..Len(task_start_and_end_dts)
InFlight == Cardinality({i \in Chunks : task[i] = "in_flight"})

\* the parameters of the call of chunk i
ParamsOf(i) ==
    RequestParams(station.station_id, task_start_and_end_dts[i][1],
                  task_start_and_end_dts[i][2], fields)

\* httpx.AsyncClient(base_url, timeout, limits): a client with a connection pool of
\* its own, open until aclose() or the exit of an `async with` block
AsyncClient(client_limits) ==
    [is_closed |-> FALSE, max_connections |-> MaxConnections(client_limits)]

\* bulk_fetch up to the point where asyncio.gather suspends: the range made UTC, the
\* client built, the chunk list computed and one async_bulk_measures started per chunk
BulkFetch ==
    /\ pc = "call"
    /\ task_start_and_end_dts' =
          TaskStartAndEndDts(start_time_utc, end_time_utc, duration_days)
    /\ task' = [i \in 1..Len(task_start_and_end_dts') |-> "waiting"]
    /\ requests' = [i \in 1..Len(task_start_and_end_dts') |-> <<>>]
    /\ responses' = [i \in 1..Len(task_start_and_end_dts') |-> <<>>]
    /\ clients' = Append(clients, AsyncClient(limits))
    /\ pc' = "gather"
    /\ UNCHANGED <<stationVars, queryVars, fetchArgs, arrival, http_errors, bulk_measures, result,
                   chunkVars, reshapeVars, facadeVars>>

\* client.get of chunk i is given a connection of the pool and sends its request
Acquire(i) ==
    /\ pc = "gather"
    /\ task[i] = "waiting"
    /\ InFlight < MaxConnections(limits)
    /\ task' = [task EXCEPT ![i] = "in_flight"]
    /\ requests' = [requests EXCEPT ![i] = Append(requests[i], ParamsOf(i))]
    /\ UNCHANGED <<stationVars, queryVars, clients, fetchArgs, pc, task_start_and_end_dts, responses, arrival,
                   http_errors, bulk_measures, result, chunkVars, reshapeVars, facadeVars>>

\* the call of chunk i is answered 2xx: async_bulk_measures returns the BulkMeasures
Respond(i) ==
    /\ pc = "gather"
    /\ task[i] = "in_flight"
    /\ task' = [task EXCEPT ![i] = "done"]
    /\ responses' = [responses EXCEPT ![i] = Some(RemoteAnswer(requests[i][Len(requests[i])]))]
    /\ arrival' = Append(arrival, i)
    /\ UNCHANGED <<stationVars, queryVars, clients, fetchArgs, pc, task_start_and_end_dts, requests, http_errors, bulk_measures,
                   result, chunkVars, reshapeVars, facadeVars>>

\* the httpx exception of a call: it carries the request it was raised for (the
\* route with the station id, and the query parameters)
RaisedWithoutInterval(exception, request) ==
    [kind |-> exception, rows |-> <<>>, request |-> [station_id |-> request.station_id]]

RaisedFor(exception, request) ==
    [kind |-> exception, rows |-> <<>>, request |-> request]

\* an exception of chunk i's async_bulk_measures: asyncio.gather passes it on,
\* bulk_fetch raises it, and asyncio.run cancels the tasks still pending
RaiseFrom(i, exception) ==
    /\ task' = [k \in Chunks |->
                   IF k = i THEN "failed"
                   ELSE IF task[k] \in {"waiting", "in_flight"} THEN "cancelled"
                   ELSE task[k]]
    /\ http_errors' = http_errors \cup {i}
    /\ result' = RaisedFor(exception, ParamsOf(i))
    /\ pc' = "raised"
    /\ UNCHANGED <<stationVars, queryVars, clients, fetchArgs, task_start_and_end_dts, requests, responses, arrival,
                   bulk_measures, chunkVars, reshapeVars, facadeVars>>

\* (as if async_bulk_measures caught the error and returned an empty BulkMeasures)
FailResponseSwallowed(i) ==
    /\ pc = "gather"
    /\ task[i] = "in_flight"
    /\ task' = [task EXCEPT ![i] = "done"]
    /\ responses' = [responses EXCEPT ![i] = Some(BulkMeasures(<<>>, <<>>))]
    /\ arrival' = Append(arrival, i)
    /\ http_errors' = http_errors \cup {i}
    /\ UNCHANGED <<stationVars, queryVars, clients, fetchArgs, pc, task_start_and_end_dts, requests, bulk_measures,
                   result, chunkVars, reshapeVars, facadeVars>>

\* (as if a failed call put its chunk back in the queue, once)
FailResponseRetried(i) ==
    /\ pc = "gather"
    /\ task[i] = "in_flight"
    /\ Len(requests[i]) < 2
    /\ task' = [task EXCEPT ![i] = "waiting"]
    /\ http_errors' = http_errors \cup {i}
    /\ UNCHANGED <<stationVars, queryVars, clients, fetchArgs, pc, task_start_and_end_dts, requests, responses,
                   arrival, bulk_measures, result, chunkVars, reshapeVars, facadeVars>>

\* the call of chunk i fails: client.get raises (connectivity, timeout) or the
\* response is not 2xx and raise_for_status raises
FailResponse(i) ==
    /\ pc = "gather"
    /\ task[i] = "in_flight"
    /\ \E exception \in {"HTTPStatusError", "TransportError"} : RaiseFrom(i, exception)

\* chunk i waited for a pool slot longer than the client's timeout: client.get raises
PoolTimeout(i) ==
    /\ pc = "gather"
    /\ task[i] = "waiting"
    /\ InFlight >= MaxConnections(limits)
    /\ RaiseFrom(i, "PoolTimeout")

\* every call has returned: asyncio.gather returns the list, bulk_fetch reshapes it
GatherReturn ==
    /\ pc = "gather"
    /\ \A i \in Chunks : task[i] = "done"
    /\ bulk_measures' = GatherResults(responses, arrival)
    /\ result' = multiple_bulk_measures_to_df(bulk_measures', station.station_timezone,
                                              station.station_id)
    /\ pc' = IF result'.kind \in {"DataFrame", "None"} THEN "returned" ELSE "raised"
    /\ UNCHANGED <<stationVars, queryVars, clients, fetchArgs, task_start_and_end_dts, task, requests, responses, arrival,
                   http_errors, chunkVars, reshapeVars, facadeVars>>

Next ==
    \/ BulkFetch
    \/ \E i \in Chunks : Acquire(i)
    \/ \E i \in Chunks : Respond(i)
    \/ \E i \in Chunks : FailResponse(i)
    \/ \E i \in Chunks : PoolTimeout(i)
    \/ GatherReturn

Spec == Init /\ [][Next]_vars

\* ------------------------------------------------------- ReshapeAndFetchSpec
\* a run of the reshaper on a drawn list, or a run of bulk_fetch
ReshapeAndFetchInit == ReshapeInit \/ Init

ReshapeAndFetchNext == ReshapeNext \/ Next

ReshapeAndFetchSpec == ReshapeAndFetchInit /\ [][ReshapeAndFetchNext]_vars

\* ----------------------------------------------------------------- FacadeSpec
\* One call of the facade: datetime_at_station_in_utc, WisconetStation.fetch_data,
\* all_data_for_station (WisconetStation.fetch_all_available_data) or Wisconet.get_data.
\* The calls of bulk_fetch they make run as in Spec.

\* Wisconet.stations: the stations all_stations() returned
WisconetStations ==
    <<[station_id |-> "ALTN", station_slug |-> "arlington", station_name |-> "Arlington",
       station_timezone |-> "America/Chicago", earliest_api_date |-> Datetime(0)],
      [station_id |-> "MAPL", station_slug |-> "maple", station_name |-> "Maple",
       station_timezone |-> "UTC",
       earliest_api_date |-> Datetime(RemoteFirstInstant("MAPL") * TicksPerSec)]>>

\* str.lower() on the texts that occur
Lower(text) ==
    CASE text \in {"ALTN", "altn"} -> "altn"
      [] text \in {"Arlington", "arlington", "ARLINGTON"} -> "arlington"
      [] text \in {"MAPL", "mapl"} -> "mapl"
      [] text \in {"Maple", "maple", "MAPLE"} -> "maple"
      [] OTHER -> text

\* (as if the identifier were compared as it is)
MatchesExactCase(s, station_id) ==
    \/ s.station_id = station_id
    \/ s.station_slug = station_id
    \/ s.station_name = station_id

\* the three comparisons of get_station for one station
Matches(s, station_id) ==
    \/ Lower(s.station_id) = Lower(station_id)
    \/ Lower(s.station_slug) = Lower(station_id)
    \/ Lower(s.station_name) = Lower(station_id)

\* Wisconet.get_station: the first station that matches, or None
get_station(stations, station_id) ==
    LET hits == {k \in 1..Len(stations) : Matches(stations[k], station_id)}
    IN  IF hits = {} THEN <<>>
        ELSE Some(stations[CHOOSE k \in hits : \A j \in hits : k <= j])

\* [x.station for x in [get_station(id) for id in station_ids] if x]
ResolvedStations(stations, station_ids) ==
    Concat(SeqMap(LAMBDA station_id : get_station(stations, station_id), station_ids))

\* the identifiers asked for: an id in another case, a name, a slug in another case
\* and one that is no station's
Identifiers == {"altn", "Arlington", "MAPLE", "nowhere"}

\* the ranges asked for, as datetimes and as ISO strings: one only ALTN has data
\* for, one both stations have data for, and an empty one
FacadeRanges ==
    {<<Datetime(0), Datetime(MaxWall \div 2)>>,
     <<Str(isoformat(0)), Str(isoformat(MaxWall \div 2))>>,
     <<Datetime(1), Datetime(MaxWall)>>,
     <<Str(isoformat(1)), Str(isoformat(MaxWall))>>,
     <<Datetime(TicksPerSec), Datetime(TicksPerSec)>>}

FacadeCalls ==
    {[op |-> "datetime_at_station_in_utc", station |-> WisconetStations[k], dt |-> dt] :
        k \in 1..Len(WisconetStations),
        dt \in {Datetime(wall) : wall \in 0..MaxWall}
                \cup {Str(isoformat(wall)) : wall \in 0..MaxWall}}
    \cup
    {[op |-> "fetch_data", station |-> WisconetStations[k],
      start_time |-> range[1], end_time |-> range[2],
      fields |-> <<"60min_air_temp_f_avg">>] :
        k \in 1..Len(WisconetStations), range \in FacadeRanges}
    \cup
    {[op |-> "all_data_for_station", station |-> WisconetStations[k],
      now |-> Datetime(WisconetStations[k].earliest_api_date.wall + age),
      fields |-> <<>>, duration_days |-> days, limits |-> limit] :
        k \in 1..Len(WisconetStations), age \in 0..MaxAge,
        days \in {1, DefaultDurationDays}, limit \in {<<>>, Some(1)}}
    \cup
    {[op |-> "get_data", station_ids |-> ids,
      start_time |-> range[1], end_time |-> range[2],
      fields |-> <<"60min_air_temp_f_avg">>, limits |-> <<>>] :
        ids \in UNION {[1..n -> Identifiers] : n \in 0..2}, range \in FacadeRanges}
    \cup
    {[op |-> "fetch_data_multiple_stations", stations |-> sts,
      start_time |-> Datetime(0), end_time |-> Datetime(MaxWall \div 2),
      fields |-> <<"60min_air_temp_f_avg">>, limits |-> limit, duration_days |-> 1] :
        sts \in UNION {[1..n -> {WisconetStations[k] : k \in 1..Len(WisconetStations)}] : n \in 0..2},
        limit \in {<<>>, Some(1)}}

FacadeInit ==
    /\ i_call \in FacadeCalls
    /\ i_pc = "input"
    /\ i_utc = 0
    /\ i_requests = <<>>
    /\ i_remaining = <<>>
    /\ i_dfs = <<>>
    /\ i_result = NoData
    /\ ChunkIdle
    /\ ReshapeIdle
    /\ FetchIdle
    /\ QueryIdle
    /\ StationIdle

\* a call of datetime_at_station_in_utc(station, dt)
Convert ==
    /\ i_pc = "input"
    /\ i_call.op = "datetime_at_station_in_utc"
    /\ i_utc' = datetime_at_station_in_utc(i_call.station, i_call.dt)
    /\ i_pc' = "done"
    /\ UNCHANGED <<stationVars, queryVars, i_call, i_requests, i_remaining, i_dfs, i_result,
                   chunkVars, reshapeVars, fetchVars>>

\* the parameters of the one request of WisconetStation.fetch_data: the range made
\* UTC, and the fields list passed on to bulk_measures
FetchDataParams(st, start, end, flds) ==
    RequestParams(st.station_id, datetime_at_station_in_utc(st, start),
                  datetime_at_station_in_utc(st, end), Some(flds))

\* what WisconetStation.fetch_data returns when the remote answers 2xx
FetchDataTable(st, start, end, flds) ==
    bulk_measures_to_df(RemoteAnswer(FetchDataParams(st, start, end, flds)),
                        st.station_timezone, st.station_id)

\* WisconetStation.fetch_data: the range made UTC, one bulk_measures call, reshaped
FetchData ==
    /\ i_pc = "input"
    /\ i_call.op = "fetch_data"
    /\ i_requests' = <<FetchDataParams(i_call.station, i_call.start_time,
                                       i_call.end_time, i_call.fields)>>
    /\ i_result' = FetchDataTable(i_call.station, i_call.start_time,
                                  i_call.end_time, i_call.fields)
    /\ i_pc' = "done"
    /\ UNCHANGED <<stationVars, queryVars, i_call, i_utc, i_remaining, i_dfs, chunkVars, reshapeVars, fetchVars>>

\* WisconetStation.fetch_data when client.get or raise_for_status of bulk_measures
\* raises: neither bulk_measures nor fetch_data has a handler, the exception leaves
\* fetch_data
FetchDataRaises ==
    /\ i_pc = "input"
    /\ i_call.op = "fetch_data"
    /\ i_requests' = <<FetchDataParams(i_call.station, i_call.start_time,
                                       i_call.end_time, i_call.fields)>>
    /\ \E exception \in {"HTTPStatusError", "TransportError"} :
          i_result' = RaisedFor(exception, i_requests'[1])
    /\ i_pc' = "raised"
    /\ UNCHANGED <<stationVars, queryVars, i_call, i_utc, i_remaining, i_dfs, chunkVars, reshapeVars, fetchVars>>

\* bulk_fetch is called with the given arguments
CallBulkFetch(st, start, end, flds, days, lims) ==
    /\ station' = st
    /\ start_time' = start
    /\ end_time' = end
    /\ fields' = flds
    /\ duration_days' = days
    /\ limits' = lims
    /\ pc' = "call"
    /\ task_start_and_end_dts' = <<>>
    /\ task' = <<>>
    /\ requests' = <<>>
    /\ responses' = <<>>
    /\ arrival' = <<>>
    /\ http_errors' = {}
    /\ bulk_measures' = <<>>
    /\ result' = NoData

\* all_data_for_station: earliest_api_date and datetime.now() (the clock of a machine
\* in the station's zone) are passed through datetime_at_station_in_utc, and the two
\* datetimes it returns are the start_time and end_time given to bulk_fetch
AllDataForStation ==
    /\ i_pc = "input"
    /\ i_call.op = "all_data_for_station"
    /\ CallBulkFetch(i_call.station,
            Datetime(datetime_at_station_in_utc(i_call.station,
                                                i_call.station.earliest_api_date)),
            Datetime(datetime_at_station_in_utc(i_call.station, i_call.now)),
            i_call.fields, i_call.duration_days, i_call.limits)
    /\ i_pc' = "bulk_fetch"
    /\ UNCHANGED <<stationVars, queryVars, clients, i_call, i_utc, i_requests, i_remaining,
                   i_dfs, i_result, chunkVars, reshapeVars>>

\* all_data_for_station returns what bulk_fetch returned
AllDataReturn ==
    /\ i_pc = "bulk_fetch"
    /\ i_call.op = "all_data_for_station"
    /\ pc = "returned"
    /\ i_result' = result
    /\ i_pc' = "done"
    /\ UNCHANGED <<stationVars, queryVars, i_call, i_utc, i_requests, i_remaining, i_dfs,
                   chunkVars, reshapeVars, fetchVars>>

\* Wisconet.get_data: the identifiers resolved, those that match no station dropped
GetData ==
    /\ i_pc = "input"
    /\ i_call.op = "get_data"
    /\ i_remaining' = ResolvedStations(WisconetStations, i_call.station_ids)
    /\ i_dfs' = <<>>
    /\ i_pc' = "loop"
    /\ UNCHANGED <<stationVars, queryVars, i_call, i_utc, i_requests, i_result, chunkVars, reshapeVars, fetchVars>>

\* a call of fetch_data_multiple_stations with a list of stations and a chunk length
FetchDataMultipleStations ==
    /\ i_pc = "input"
    /\ i_call.op = "fetch_data_multiple_stations"
    /\ i_remaining' = i_call.stations
    /\ i_dfs' = <<>>
    /\ i_pc' = "loop"
    /\ UNCHANGED <<stationVars, queryVars, i_call, i_utc, i_requests, i_result,
                   chunkVars, reshapeVars, fetchVars>>

\* fetch_data_multiple_stations: bulk_fetch for the next station of the list
FetchNextStation ==
    /\ i_pc = "loop"
    /\ i_remaining # <<>>
    /\ CallBulkFetch(Head(i_remaining), i_call.start_time, i_call.end_time,
                     Some(i_call.fields),
                     IF i_call.op = "get_data" THEN DefaultDurationDays
                     ELSE i_call.duration_days,
                     IF i_call.limits = <<>> THEN Some(DefaultMaxConnections)
                     ELSE i_call.limits)
    /\ i_pc' = "bulk_fetch"
    /\ UNCHANGED <<stationVars, queryVars, clients, i_call, i_utc, i_requests, i_remaining,
                   i_dfs, i_result, chunkVars, reshapeVars>>

\* the station's table is kept unless it is None
StationFetched ==
    /\ i_pc = "bulk_fetch"
    /\ i_call.op \in {"get_data", "fetch_data_multiple_stations"}
    /\ pc = "returned"
    /\ i_dfs' = IF result.kind # "None" THEN Append(i_dfs, result) ELSE i_dfs
    /\ i_remaining' = Tail(i_remaining)
    /\ i_pc' = "loop"
    /\ pc' = "idle"
    /\ UNCHANGED <<stationVars, queryVars, clients, i_call, i_utc, i_requests, i_result, fetchArgs,
                   task_start_and_end_dts, task, requests, responses, arrival,
                   http_errors, bulk_measures, result, chunkVars, reshapeVars>>

\* pd.concat(station_dfs) if station_dfs else None
FetchDataMultipleStationsReturn ==
    /\ i_pc = "loop"
    /\ i_remaining = <<>>
    /\ i_result' = IF i_dfs = <<>> THEN NoData
                    ELSE DataFrame(Concat(SeqMap(LAMBDA df : df.rows, i_dfs)))
    /\ i_pc' = "done"
    /\ UNCHANGED <<stationVars, queryVars, i_call, i_utc, i_requests, i_remaining, i_dfs,
                   chunkVars, reshapeVars, fetchVars>>

\* (as if the tables of the stations already fetched came back with the error)
BulkFetchRaisedKeepsTables ==
    /\ i_pc = "bulk_fetch"
    /\ pc = "raised"
    /\ i_result' = [result EXCEPT !.rows = Concat(SeqMap(LAMBDA df : df.rows, i_dfs))]
    /\ i_pc' = "raised"
    /\ UNCHANGED <<stationVars, queryVars, i_call, i_utc, i_requests, i_remaining, i_dfs,
                   chunkVars, reshapeVars, fetchVars>>

\* bulk_fetch raised: nothing catches it, the call of the facade raises it
BulkFetchRaised ==
    /\ i_pc = "bulk_fetch"
    /\ pc = "raised"
    /\ i_result' = result
    /\ i_pc' = "raised"
    /\ UNCHANGED <<stationVars, queryVars, i_call, i_utc, i_requests, i_remaining, i_dfs,
                   chunkVars, reshapeVars, fetchVars>>

FacadeNext ==
    \/ Convert
    \/ FetchData
    \/ FetchDataRaises
    \/ AllDataForStation
    \/ AllDataReturn
    \/ GetData
    \/ FetchDataMultipleStations
    \/ FetchNextStation
    \/ StationFetched
    \/ FetchDataMultipleStationsReturn
    \/ BulkFetchRaised
    \/ Next

FacadeSpec == FacadeInit /\ [][FacadeNext]_vars

\* ------------------------------------------------------------------ QuerySpec
\* One call of filter_fields(fields, criteria) or of
\* Wisconet.nearest_stations(lat, lon, range, n).

\* a Field with the attributes filter_fields reads
SchemaField(standard_name, collection_frequency, measure_type, final_units) ==
    [standard_name |-> standard_name, collection_frequency |-> collection_frequency,
     measure_type |-> measure_type, final_units |-> final_units]

\* a member of one of the Enum classes of wiscopy.variables
EnumMember(class, value) == [class |-> class, value |-> value]

CollectionFrequency == {EnumMember("CollectionFrequency", v) : v \in {"5min", "60min"}}
MeasureType == {EnumMember("MeasureType", v) : v \in {"Air Temp", "Dew Point"}}
Units == {EnumMember("Units", v) : v \in {"celsius", "fahrenheit"}}

criteria_type_to_field ==
    [CollectionFrequency |-> "collection_frequency", MeasureType |-> "measure_type",
     Units |-> "final_units"]

\* criteria_by_type: for each Enum class among the criteria, the values of its members
criteria_by_type(criteria) ==
    [criteria_type \in {criteria[k].class : k \in 1..Len(criteria)} |->
        {criteria[k].value : k \in {j \in 1..Len(criteria) : criteria[j].class = criteria_type}}]

\* filter_fields: one pass over the fields per Enum class, which keeps the fields
\* whose attribute is among the values given for the class (the passes commute, so
\* the order in which the set of classes is walked does not show), then the names
filter_fields(fields_list, criteria) ==
    LET by_type == criteria_by_type(criteria)
        Kept(field) ==
            \A criteria_type \in DOMAIN by_type :
                field[criteria_type_to_field[criteria_type]] \in by_type[criteria_type]
    IN  SeqMap(LAMBDA field : field.standard_name, SelectSeq(fields_list, Kept))

\* the fields of a station
FilterCatalog ==
    <<SchemaField("60min_air_temp_f_avg", "60min", "Air Temp", "fahrenheit"),
      SchemaField("60min_air_temp_c_avg", "60min", "Air Temp", "celsius"),
      SchemaField("5min_air_temp_f_avg", "5min", "Air Temp", "fahrenheit"),
      SchemaField("60min_dew_point_f_avg", "60min", "Dew Point", "fahrenheit")>>

\* the lists of fields filtered: the catalog, and the lists of up to MaxFieldsArg of
\* its fields in any order
FilterFieldLists ==
    {FilterCatalog} \cup
    UNION {{[k \in 1..n |-> FilterCatalog[pick[k]]] : pick \in [1..n -> 1..Len(FilterCatalog)]} :
              n \in 0..MaxFieldsArg}

CriteriaLists ==
    UNION {[1..n -> CollectionFrequency \cup MeasureType \cup Units] : n \in 0..MaxCriteria}

FilterCalls ==
    {[op |-> "filter_fields", fields |-> f, criteria |-> c] :
        f \in FilterFieldLists, c \in CriteriaLists}

\* a station with the coordinates distance_to_point reads
StationAt(station_id, latitude, longitude) ==
    [station_id |-> station_id, latitude |-> latitude, longitude |-> longitude]

Abs(x) == IF x < 0 THEN -x ELSE x

\* WisconetStation.distance_to_point for a point on the station's meridian, where
\* the great-circle distance is R * |lat2 - lat1| * pi / 180; distances are counted
\* in steps of latitude
distance_to_point(st, lat, lon) == Abs(lat - st.latitude)

\* sorted(pairs, key=lambda x: x[1]): ascending, pairs of equal distance in the
\* order of the list
SortedByDistance(pairs) ==
    LET Rank(k) ==
            1 + Cardinality({j \in 1..Len(pairs) :
                                \/ pairs[j][2] < pairs[k][2]
                                \/ pairs[j][2] = pairs[k][2] /\ j < k})
    IN  [r \in 1..Len(pairs) |-> pairs[CHOOSE k \in 1..Len(pairs) : Rank(k) = r]]

\* the truth value of an optional number: None and 0 are false
TruthyNumber(optional_number) == optional_number # <<>> /\ optional_number[1] # 0

\* Wisconet.nearest_stations: the pairs sorted, those beyond range dropped if range
\* is true, the first n kept if n is true
nearest_stations(stations, lat, lon, range, n) ==
    LET pairs == SeqMap(LAMBDA st : <<st, distance_to_point(st, lat, lon)>>, stations)
        sorted == SortedByDistance(pairs)
        in_range == IF TruthyNumber(range)
                    THEN SelectSeq(sorted, LAMBDA s : s[2] <= range[1])
                    ELSE sorted
    IN  IF TruthyNumber(n)
        THEN SubSeq(in_range, 1, IF n[1] < Len(in_range) THEN n[1] ELSE Len(in_range))
        ELSE in_range

\* Wisconet.stations for the call: up to MaxStations stations on the meridian 0
NearestStationLists ==
    UNION {{[k \in 1..m |-> StationAt(k, lats[k], 0)] : lats \in [1..m -> 0..MaxLat]} :
              m \in 0..MaxStations}

NearestCalls ==
    {[op |-> "nearest_stations", stations |-> sts, lat |-> lat, lon |-> 0,
      range |-> range, n |-> n] :
        sts \in NearestStationLists, lat \in 0..MaxLat,
        range \in {<<>>} \cup {Some(r) : r \in 0..MaxRange},
        n \in {<<>>} \cup {Some(k) : k \in 0..MaxN}}

QueryInit ==
    /\ q_call \in FilterCalls \cup NearestCalls
    /\ q_pc = "input"
    /\ q_result = <<>>
    /\ ChunkIdle
    /\ ReshapeIdle
    /\ FetchIdle
    /\ FacadeIdle
    /\ StationIdle

FilterFields ==
    /\ q_pc = "input"
    /\ q_call.op = "filter_fields"
    /\ q_result' = filter_fields(q_call.fields, q_call.criteria)
    /\ q_pc' = "done"
    /\ UNCHANGED <<stationVars, q_call, chunkVars, reshapeVars, fetchVars, facadeVars>>

NearestStations ==
    /\ q_pc = "input"
    /\ q_call.op = "nearest_stations"
    /\ q_result' = nearest_stations(q_call.stations, q_call.lat, q_call.lon,
                                    q_call.range, q_call.n)
    /\ q_pc' = "done"
    /\ UNCHANGED <<stationVars, q_call, chunkVars, reshapeVars, fetchVars, facadeVars>>

QueryNext ==
    \/ FilterFields
    \/ NearestStations

QuerySpec == QueryInit /\ [][QueryNext]_vars

\* ---------------------------------------------------------------- StationSpec
\* A sequence of fields() and get_field_names(filter) calls on one WisconetStation.

\* the catalogs station_fields is answered with: none, one or both of the fields
RemoteCatalogs == {<<>>, <<StationCatalog[1]>>, <<StationCatalog[2]>>, StationCatalog}

\* the filter arguments: None and three substrings
Filters == {<<>>, Some("air"), Some("60min"), Some("soil")}

\* `filter in field.standard_name` for the substrings and the names that occur
IsSubstring(filter, standard_name) ==
    CASE filter = "air" -> standard_name = "60min_air_temp_f_avg"
      [] filter = "60min" ->
             standard_name \in {"60min_air_temp_f_avg", "60min_dew_point_f_avg"}
      [] OTHER -> FALSE

\* self._fields after self.fields() ran: station_fields is called when self._fields
\* is None or an empty list, and would be answered with catalog
FieldsAfterCall(self_fields, catalog) ==
    IF ~Truthy(self_fields) THEN Some(catalog) ELSE self_fields

\* the catalogs requested so far, after self.fields() ran
FetchedAfterCall(self_fields, fetched, catalog) ==
    IF ~Truthy(self_fields) THEN Append(fetched, catalog) ELSE fetched

\* the list comprehensions of get_field_names over what self.fields() returned
get_field_names(fields_list, filter) ==
    IF filter = <<>> THEN SeqMap(LAMBDA field : field.standard_name, fields_list)
    ELSE SeqMap(LAMBDA field : field.standard_name,
                SelectSeq(fields_list,
                          LAMBDA field : IsSubstring(filter[1], field.standard_name)))

\* a WisconetStation just constructed
StationInit ==
    /\ w_fields = <<>>
    /\ w_fetched = <<>>
    /\ w_calls = 0
    /\ w_last = [op |-> "none"]
    /\ ChunkIdle
    /\ ReshapeIdle
    /\ FetchIdle
    /\ FacadeIdle
    /\ QueryIdle

\* a call of fields()
CallFields(catalog) ==
    /\ w_calls < MaxCalls
    /\ w_fields' = FieldsAfterCall(w_fields, catalog)
    /\ w_fetched' = FetchedAfterCall(w_fields, w_fetched, catalog)
    /\ w_last' = [op |-> "fields", returned |-> w_fields'[1]]
    /\ w_calls' = w_calls + 1
    /\ UNCHANGED <<chunkVars, reshapeVars, fetchVars, facadeVars, queryVars>>

\* a call of get_field_names(filter)
CallGetFieldNames(filter, catalog) ==
    /\ w_calls < MaxCalls
    /\ w_fields' = FieldsAfterCall(w_fields, catalog)
    /\ w_fetched' = FetchedAfterCall(w_fields, w_fetched, catalog)
    /\ w_last' = [op |-> "get_field_names", filter |-> filter,
                  returned |-> get_field_names(w_fields'[1], filter)]
    /\ w_calls' = w_calls + 1
    /\ UNCHANGED <<chunkVars, reshapeVars, fetchVars, facadeVars, queryVars>>

StationNext ==
    \/ \E catalog \in RemoteCatalogs : CallFields(catalog)
    \/ \E filter \in Filters, catalog \in RemoteCatalogs : CallGetFieldNames(filter, catalog)

StationSpec == StationInit /\ [][StationNext]_vars

\* ------------------------------------------------------------------- claims
CeilDiv(a, b) == (a + b - 1) \div b

\* C1: for start < end and chunk_days >= 1 the chunk list is not empty, ascending
\* by sub_start, starts at start, ends at end, each sub_end is the next sub_start,
\* and every chunk has sub_start < sub_end.
C1_ChunksCoverRange ==
    (c_pc = "chunked" /\ c_start < c_end) =>
        /\ Len(c_chunks) >= 1
        /\ c_chunks[1][1] = c_start
        /\ c_chunks[Len(c_chunks)][2] = c_end
        /\ \A k \in 1..Len(c_chunks) - 1 :
              /\ c_chunks[k][2] = c_chunks[k + 1][1]
              /\ c_chunks[k][1] < c_chunks[k + 1][1]
        /\ \A k \in 1..Len(c_chunks) : c_chunks[k][1] < c_chunks[k][2]

\* a range cut into three or more chunks, the last one clipped to end
C1_Witness ==
    /\ c_pc = "chunked"
    /\ c_start < c_end
    /\ Len(c_chunks) >= 3
    /\ c_chunks[Len(c_chunks)][2] - c_chunks[Len(c_chunks)][1] < timedelta(c_days)

\* C10: for start < end the number of chunks is ceil((end - start) / chunk_days days).
C10_ChunkCount ==
    (c_pc = "chunked" /\ c_start < c_end) =>
        Len(c_chunks) = CeilDiv(c_end - c_start, timedelta(c_days))

\* a range that is an exact multiple of chunk_days, two chunks or more, with
\* chunk_days > 1, chunked from an instant that is not on a whole second
C10_Witness ==
    /\ c_pc = "chunked"
    /\ c_start < c_end
    /\ c_start % TicksPerSec # 0
    /\ c_days > 1
    /\ (c_end - c_start) % timedelta(c_days) = 0
    /\ Len(c_chunks) >= 2

\* the lengths of the chunks, in order
ChunkLengths == [k \in 1..Len(c_chunks) |-> c_chunks[k][2] - c_chunks[k][1]]

\* C11: every chunk but the last is exactly chunk_days long; the last is at most
\* chunk_days long and ends at end; 62 days in chunks of 30 days are three chunks of
\* 30, 30 and 2 days.
C11_ChunkLengths ==
    (c_pc = "chunked" /\ c_start < c_end) =>
        /\ \A k \in 1..Len(c_chunks) - 1 : ChunkLengths[k] = timedelta(c_days)
        /\ ChunkLengths[Len(c_chunks)] <= timedelta(c_days)
        /\ ChunkLengths[Len(c_chunks)] > 0
        /\ c_chunks[Len(c_chunks)][2] = c_end
        /\ (c_start = 0 /\ c_end = timedelta(62) /\ c_days = 30) =>
              ChunkLengths = <<timedelta(30), timedelta(30), timedelta(2)>>

\* the 62-day range chunked by 30 days
C11_Witness ==
    /\ c_pc = "chunked"
    /\ c_start = 0 /\ c_end = timedelta(62) /\ c_days = 30
    /\ Len(c_chunks) = 3
    /\ ChunkLengths[3] = timedelta(2)

\* C12: when the range handed to the chunker has start = end or start > end (a
\* start_time that is the end_time, or one whose UTC instant is not before the
\* end_time's), the chunk list is empty, no call is made, and bulk_fetch does not raise
\* and returns None.
C12_EmptyRange ==
    (pc # "call" /\ (start_time = end_time \/ start_time_utc >= end_time_utc)) =>
        /\ task_start_and_end_dts = <<>>
        /\ task = <<>>
        /\ responses = <<>>
        /\ arrival = <<>>
        /\ pc # "raised"
        /\ pc = "returned" => bulk_measures = <<>> /\ result = NoData

\* a start_time after the end_time: bulk_fetch has returned None
C12_Witness ==
    /\ pc = "returned"
    /\ start_time.wall > end_time.wall
    /\ start_time_utc > end_time_utc
    /\ task_start_and_end_dts = <<>>
    /\ result = NoData

\* the ids of a record's catalog, the number of its (field_id, value) pairs, and
\* whether every pair's id is in the catalog
CatalogIds(bms) == {bms.fieldlist[k].id : k \in 1..Len(bms.fieldlist)}
NumPairs(bms) == SumSeq(SeqMap(LAMBDA collection : Len(collection.measures), bms.data))
AllIdsKnown(bms) ==
    \A m \in 1..Len(bms.data) : \A k \in 1..Len(bms.data[m].measures) :
        bms.data[m].measures[k][1] \in CatalogIds(bms)

\* C6: a record of M entries with K pairs each, all ids in fieldlist, reshapes to
\* M x K rows (to the empty sentinel when that is zero); the row of the k-th pair of
\* the m-th entry carries the pair's value, the entry's collection_time and the
\* metadata of a Field of fieldlist whose id is the pair's field_id.
C6_UnpivotComplete ==
    r_pc = "done" =>
        \A j \in 1..Len(r_list) :
            LET bms == r_list[j]
                df == r_each[j]
                M == Len(bms.data)
                K == IF M = 0 THEN 0 ELSE Len(bms.data[1].measures)
            IN  (AllIdsKnown(bms) /\ \A m \in 1..M : Len(bms.data[m].measures) = K) =>
                    /\ df.kind = (IF M * K = 0 THEN "None" ELSE "DataFrame")
                    /\ Len(df.rows) = M * K
                    /\ \A m \in 1..M : \A k \in 1..K :
                          LET row == df.rows[(m - 1) * K + k]
                              measure == bms.data[m].measures[k]
                          IN  /\ row.value = measure[2]
                              /\ Instant(row.collection_time) = bms.data[m].collection_time
                              /\ row.id = measure[1]
                              /\ \E f \in 1..Len(bms.fieldlist) :
                                    /\ bms.fieldlist[f].id = measure[1]
                                    /\ bms.fieldlist[f].standard_name = row.standard_name

\* two entries of two pairs each, of two different fields, reshaped to four rows
C6_Witness ==
    /\ r_pc = "done"
    /\ Len(r_list) = 1
    /\ Len(r_list[1].data) = 2
    /\ Len(r_list[1].data[1].measures) = 2
    /\ r_list[1].data[1].measures[1][1] # r_list[1].data[1].measures[2][1]
    /\ AllIdsKnown(r_list[1])
    /\ r_each[1].kind = "DataFrame"
    /\ Len(r_each[1].rows) = 4

\* C7: a record with a measure whose field_id is the id of no Field of its fieldlist
\* makes bulk_measures_to_df raise, and a list holding such a record makes
\* multiple_bulk_measures_to_df raise: no table is returned.
C7_UnknownFieldIdIsFatal ==
    r_pc = "done" =>
        /\ \A j \in 1..Len(r_list) :
              ~AllIdsKnown(r_list[j]) => r_each[j].kind = "KeyError"
        /\ (\E j \in 1..Len(r_list) : ~AllIdsKnown(r_list[j])) => r_multi.kind = "KeyError"

\* a list whose first record is sound and populated and whose second has a measure
\* of an unknown field: the call raised
C7_Witness ==
    /\ r_pc = "done"
    /\ Len(r_list) = 2
    /\ AllIdsKnown(r_list[1]) /\ NumPairs(r_list[1]) > 0
    /\ ~AllIdsKnown(r_list[2])
    /\ r_each[1].kind = "DataFrame"
    /\ r_each[2].kind = "KeyError"
    /\ r_multi.kind = "KeyError"

\* C8: a record with no DataByTime entry (or no pair at all), and a list of records
\* with no pair at all, reshape to None; a table returned always has rows; a record
\* or a list holding a pair never reshapes to None.
C8_EmptyIsNone ==
    r_pc = "done" =>
        /\ \A j \in 1..Len(r_list) :
              /\ NumPairs(r_list[j]) = 0 => r_each[j] = NoData
              /\ NumPairs(r_list[j]) > 0 => r_each[j].kind # "None"
              /\ r_each[j].kind = "DataFrame" => Len(r_each[j].rows) > 0
        /\ (\A j \in 1..Len(r_list) : NumPairs(r_list[j]) = 0) => r_multi = NoData
        /\ (\E j \in 1..Len(r_list) : NumPairs(r_list[j]) > 0) => r_multi.kind # "None"
        /\ r_multi.kind = "DataFrame" => Len(r_multi.rows) > 0

\* a list of two records, both with a catalog and neither with a pair: None
C8_Witness ==
    /\ r_pc = "done"
    /\ Len(r_list) = 2
    /\ \A j \in 1..2 : r_list[j].fieldlist # <<>> /\ NumPairs(r_list[j]) = 0
    /\ r_list[1].data = <<>> /\ r_list[2].data # <<>>
    /\ r_each = <<NoData, NoData>>
    /\ r_multi = NoData

\* C9: the collection_time of every output row, converted back to UTC, is the epoch
\* second of its entry, whatever the zone, and it is shown in the zone asked for
\* (UTC when none is).
C9_TimezoneKeepsInstant ==
    r_pc = "done" =>
        \A j \in 1..Len(r_list) :
            r_each[j].kind = "DataFrame" =>
                \A m \in 1..Len(r_list[j].data) :
                    \A k \in 1..Len(r_list[j].data[m].measures) :
                        LET K == Len(r_list[j].data[1].measures)
                            ts == r_each[j].rows[(m - 1) * K + k].collection_time
                        IN  /\ Instant(ts) = r_list[j].data[m].collection_time
                            /\ ts.tz = (IF r_tz = None THEN "UTC" ELSE r_tz)
                            /\ ts.utcoffset = UtcOffsetAt(ts.tz, Instant(ts))

\* two entries on the two sides of a daylight-saving transition, converted to the
\* zone that has it: the two rows show different offsets
C9_Witness ==
    /\ r_pc = "done"
    /\ r_tz = "America/Chicago"
    /\ Len(r_list) = 1
    /\ r_each[1].kind = "DataFrame"
    /\ Len(r_list[1].data) = 2
    /\ Len(r_each[1].rows) = 2
    /\ r_list[1].data[2].collection_time = DstStartUtc
    /\ r_each[1].rows[1].collection_time.utcoffset # r_each[1].rows[2].collection_time.utcoffset
    /\ r_each[1].rows[1].collection_time.wall # r_list[1].data[1].collection_time

\* C13: multiple_bulk_measures_to_df appends the rows of the records in list order and
\* drops none: its rows are the rows bulk_measures_to_df gives for the first record,
\* then those of the second, and so on; their number is the sum of the per-record
\* numbers; an instant present in two records is present twice.
C13_OrderedAppend ==
    (r_pc = "done" /\ \A j \in 1..Len(r_list) : r_each[j].kind \in {"DataFrame", "None"}) =>
        /\ r_multi.kind \in {"DataFrame", "None"}
        /\ r_multi.rows = Concat(SeqMap(LAMBDA df : df.rows, r_each))
        /\ Len(r_multi.rows) = SumSeq(SeqMap(LAMBDA df : Len(df.rows), r_each))
        /\ \A j \in 1..Len(r_list) : \A k \in 1..Len(r_each[j].rows) :
              r_multi.rows[SumSeq(SeqMap(LAMBDA df : Len(df.rows), SubSeq(r_each, 1, j - 1))) + k]
                  = r_each[j].rows[k]

\* two records that each hold a row of the same instant: two rows of that instant
C13_Witness ==
    /\ r_pc = "done"
    /\ Len(r_list) = 2
    /\ r_each[1].kind = "DataFrame" /\ r_each[2].kind = "DataFrame"
    /\ r_each[1].rows[1].collection_time = r_each[2].rows[1].collection_time
    /\ r_each[1].rows[1] # r_each[2].rows[1]
    /\ r_multi.kind = "DataFrame"
    /\ Len(r_multi.rows) = 2
    /\ r_multi.rows[1].collection_time = r_multi.rows[2].collection_time

\* what the remote answers to the call of each chunk, in chunk order
AnswersInChunkOrder == [i \in Chunks |-> RemoteAnswer(ParamsOf(i))]

\* C2: whatever the order in which the calls complete, asyncio.gather returns one
\* BulkMeasures per chunk, the i-th being the answer to the i-th chunk, and the
\* chunks are in ascending order of their start.
C2_GatherKeepsChunkOrder ==
    pc = "returned" =>
        /\ Len(bulk_measures) = Len(task_start_and_end_dts)
        /\ \A i \in Chunks : bulk_measures[i] = RemoteAnswer(ParamsOf(i))
        /\ \A i \in Chunks : \A j \in Chunks :
              i < j => task_start_and_end_dts[i][1] < task_start_and_end_dts[j][1]

\* three chunks or more, completed last chunk first, first chunk last, with
\* different answers
C2_Witness ==
    /\ pc = "returned"
    /\ Len(arrival) >= 3
    /\ arrival[1] = Len(arrival)
    /\ arrival[Len(arrival)] = 1
    /\ bulk_measures[1] # bulk_measures[Len(arrival)]
    /\ bulk_measures[1].data # <<>>

\* C3: once the call of a chunk has failed bulk_fetch has raised and holds no row;
\* what bulk_fetch returns is the table of the answers to all the chunks (or None
\* when they hold no row), and a table is never held otherwise.
C3_NoPartialTable ==
    /\ http_errors # {} =>
          /\ pc = "raised"
          /\ result.kind \notin {"DataFrame", "None"}
          /\ result.rows = <<>>
    /\ pc = "returned" =>
          /\ http_errors = {}
          /\ \A i \in Chunks : task[i] = "done"
          /\ result = multiple_bulk_measures_to_df(AnswersInChunkOrder,
                          station.station_timezone, station.station_id)
    /\ pc = "raised" => result.kind \notin {"DataFrame", "None"}
    /\ pc \notin {"returned", "raised"} => result = NoData

\* the call of one chunk failed after another chunk's call had returned rows
C3_Witness ==
    /\ pc = "raised"
    /\ \E i \in Chunks : task[i] = "failed"
    /\ \E i \in Chunks : task[i] = "done" /\ responses[i][1].data # <<>>
    /\ result.rows = <<>>

\* C14: when the call of a chunk fails (not 2xx, connectivity, timeout), the error
\* bulk_fetch raises names the station and the start and end of that chunk, and of
\* no other chunk.
C14_ErrorNamesChunk ==
    http_errors # {} =>
        /\ pc = "raised"
        /\ result.kind \in {"HTTPStatusError", "TransportError", "PoolTimeout"}
        /\ \E i \in Chunks :
              /\ http_errors = {i}
              /\ task[i] = "failed"
              /\ result.request = ParamsOf(i)
              /\ result.request.station_id = station.station_id
              /\ result.request.start_time = Epoch(task_start_and_end_dts[i][1])
              /\ result.request.end_time = Epoch(task_start_and_end_dts[i][2])
              /\ \A j \in Chunks \ {i} : result.request # ParamsOf(j)

\* the call of the second of three or more chunks timed out, the first having
\* returned
C14_Witness ==
    /\ pc = "raised"
    /\ Len(task) >= 3
    /\ task[1] = "done"
    /\ task[2] = "failed"
    /\ result.kind = "TransportError"
    /\ result.request = ParamsOf(2)

\* every row of the table has the station_id column with the given id, the value, the
\* index collection_time and the Field metadata columns, the index read in zone tz
RowsTagged(df, station_id, tz) ==
    \A k \in 1..Len(df.rows) :
        LET row == df.rows[k]
        IN  /\ {"station_id", "value", "collection_time", "id", "standard_name"}
                   \subseteq DOMAIN row
            /\ row.station_id = station_id
            /\ row.collection_time.tz = tz
            /\ row.collection_time.utcoffset = UtcOffsetAt(tz, Instant(row.collection_time))

\* C16: with a station_id that is not empty, every row of the table that
\* bulk_measures_to_df, multiple_bulk_measures_to_df and bulk_fetch return carries
\* that station_id, the value and the Field metadata, and its collection_time is
\* read in the zone passed (for bulk_fetch: the station's id and the station's zone).
C16_RowsCarryStationId ==
    /\ (r_pc = "done" /\ r_station_id # "") =>
          LET tz == IF r_tz = None THEN "UTC" ELSE r_tz
          IN  /\ \A j \in 1..Len(r_list) :
                    r_each[j].kind = "DataFrame" => RowsTagged(r_each[j], r_station_id, tz)
              /\ r_multi.kind = "DataFrame" => RowsTagged(r_multi, r_station_id, tz)
    /\ (pc = "returned" /\ result.kind = "DataFrame") =>
          /\ station.station_id # ""
          /\ RowsTagged(result, station.station_id, station.station_timezone)

\* bulk_fetch returned a table of several chunks whose rows all carry the station's id
C16_Witness ==
    /\ pc = "returned"
    /\ result.kind = "DataFrame"
    /\ Len(task_start_and_end_dts) >= 2
    /\ Len(result.rows) >= 4
    /\ result.rows[1].station_id = "ALTN"
    /\ result.rows[Len(result.rows)].station_id = "ALTN"
    /\ result.rows[1].collection_time.tz = "America/Chicago"

\* C17: with a fields list that is not empty every request sent carries the fields
\* parameter, the names of the list in order with a comma between two; with fields
\* None or the empty list no request carries a fields parameter.
C17_FieldsPassedThrough ==
    \A i \in 1..Len(requests) :
        requests[i] # <<>> =>
            LET params == requests[i][1]
            IN  /\ (fields # <<>> /\ fields[1] # <<>>) =>
                      /\ "fields" \in DOMAIN params
                      /\ params.fields = Join(fields[1])
                      /\ SplitFields(params.fields) = fields[1]
                /\ fields = Some(<<"60min_dew_point_f_avg", "60min_air_temp_f_avg">>) =>
                      /\ "fields" \in DOMAIN params
                      /\ params.fields = "60min_dew_point_f_avg,60min_air_temp_f_avg"
                /\ (fields = <<>> \/ fields = Some(<<>>)) => "fields" \notin DOMAIN params

\* three requests or more, each sent with the two names of the list in its order
C17_Witness ==
    /\ pc = "returned"
    /\ fields = Some(<<"60min_dew_point_f_avg", "60min_air_temp_f_avg">>)
    /\ Len(requests) >= 3
    /\ \A i \in 1..Len(requests) :
          /\ requests[i] # <<>>
          /\ requests[i][1].fields = "60min_dew_point_f_avg,60min_air_temp_f_avg"

\* the reading of the clock of zone tz at the UTC instant utc (both in ticks)
ReadingAt(tz, utc) == utc + UtcOffsetAt(tz, utc \div TicksPerSec) * TicksPerSec

\* the UTC instants at which the clock of zone tz reads wall: none for a reading the
\* clock skips, two for one it repeats
InstantsOfReading(tz, wall) ==
    {utc \in 0..(wall + 4 * TicksPerSec) : ReadingAt(tz, utc) = wall}

\* the reading an argument holds, be it a datetime or the ISO text of one
ReadingOf(dt) ==
    IF "wall" \in DOMAIN dt THEN dt.wall
    ELSE CHOOSE wall \in 0..MaxWall : dt = Str(isoformat(wall))

\* the instant of a reading of the station's clock: the first, where there are two
IsInstantOf(utc, tz, dt) ==
    InstantsOfReading(tz, ReadingOf(dt)) # {} =>
        /\ utc \in InstantsOfReading(tz, ReadingOf(dt))
        /\ \A other \in InstantsOfReading(tz, ReadingOf(dt)) : utc <= other

\* C18: datetime_at_station_in_utc gives, for a datetime and for the ISO text of it
\* alike, the UTC instant at which the station's clock shows that reading (midnight of
\* day 0 at the America/Chicago station, in standard time, is UTC midnight plus the
\* standard offset); the requests of WisconetStation.fetch_data and of bulk_fetch
\* carry the epoch seconds of the start_time and end_time so converted.
C18_StationTimeToUtc ==
    /\ (i_pc = "done" /\ i_call.op = "datetime_at_station_in_utc") =>
          /\ IsInstantOf(i_utc, i_call.station.station_timezone, i_call.dt)
          /\ i_utc = datetime_at_station_in_utc(i_call.station, Datetime(ReadingOf(i_call.dt)))
          /\ i_utc = datetime_at_station_in_utc(i_call.station,
                                                Str(isoformat(ReadingOf(i_call.dt))))
          /\ (i_call.station.station_timezone = "America/Chicago" /\ ReadingOf(i_call.dt) = 0)
                => i_utc = 2 * TicksPerSec
    /\ (i_pc = "done" /\ i_call.op = "fetch_data") =>
          /\ Len(i_requests) = 1
          /\ \E utc \in 0..(MaxWall + 4 * TicksPerSec) :
                /\ IsInstantOf(utc, i_call.station.station_timezone, i_call.start_time)
                /\ i_requests[1].start_time = utc \div TicksPerSec
          /\ \E utc \in 0..(MaxWall + 4 * TicksPerSec) :
                /\ IsInstantOf(utc, i_call.station.station_timezone, i_call.end_time)
                /\ i_requests[1].end_time = utc \div TicksPerSec
          /\ i_requests[1].start_time
                = Epoch(datetime_at_station_in_utc(i_call.station, i_call.start_time))
          /\ i_requests[1].end_time
                = Epoch(datetime_at_station_in_utc(i_call.station, i_call.end_time))
    /\ \A i \in 1..Len(requests) :
          requests[i] # <<>> =>
              /\ i = 1 =>
                    /\ requests[i][1].start_time
                          = Epoch(datetime_at_station_in_utc(station, start_time))
                    /\ \E utc \in 0..(MaxWall + MaxAge + 8 * TicksPerSec) :
                          /\ IsInstantOf(utc, station.station_timezone,
                                         Datetime(ReadingOf(start_time)))
                          /\ requests[i][1].start_time = utc \div TicksPerSec
              /\ i = Len(requests) =>
                    /\ requests[i][1].end_time
                          = Epoch(datetime_at_station_in_utc(station, end_time))
                    /\ \E utc \in 0..(MaxWall + MaxAge + 8 * TicksPerSec) :
                          /\ IsInstantOf(utc, station.station_timezone,
                                         Datetime(ReadingOf(end_time)))
                          /\ requests[i][1].end_time = utc \div TicksPerSec

\* the ISO text of a reading of the Chicago station's clock in daylight saving time,
\* converted: the instant is one second (the zone's offset then) after the reading
C18_Witness ==
    /\ i_pc = "done"
    /\ i_call.op = "datetime_at_station_in_utc"
    /\ i_call.station.station_timezone = "America/Chicago"
    /\ IsStr(i_call.dt)
    /\ ReadingOf(i_call.dt) % TicksPerSec # 0
    /\ InstantsOfReading("America/Chicago", ReadingOf(i_call.dt)) # {}
    /\ i_utc = ReadingOf(i_call.dt) + TicksPerSec

\* C19: the first request of all_data_for_station starts at the UTC instant of the
\* station's earliest_api_date read on the station's clock, and its last request ends
\* at the current instant (the instant at which the clock read by datetime.now()
\* shows now).
C19_AllDataFromEarliestToNow ==
    (i_call.op = "all_data_for_station" /\ pc = "returned" /\ requests # <<>>) =>
        /\ \E utc \in 0..(MaxWall + MaxAge + 8 * TicksPerSec) :
              /\ IsInstantOf(utc, i_call.station.station_timezone,
                             i_call.station.earliest_api_date)
              /\ requests[1][1].start_time = utc \div TicksPerSec
        /\ \E utc \in 0..(MaxWall + MaxAge + 8 * TicksPerSec) :
              /\ IsInstantOf(utc, i_call.station.station_timezone, i_call.now)
              /\ requests[Len(requests)][1].end_time = utc \div TicksPerSec

\* all_data_for_station has returned for the America/Chicago station: its first
\* request starts after the instant of earliest_api_date, by the zone's offset
C19_Witness ==
    /\ i_pc = "done"
    /\ i_call.op = "all_data_for_station"
    /\ i_call.station.station_timezone = "America/Chicago"
    /\ requests # <<>>
    /\ requests[1][1].start_time
          > Epoch(datetime_at_station_in_utc(i_call.station,
                                             i_call.station.earliest_api_date))
    /\ requests[1][1].start_time
          = Epoch(datetime_at_station_in_utc(i_call.station,
                Datetime(datetime_at_station_in_utc(i_call.station,
                                                    i_call.station.earliest_api_date))))

\* the stations an identifier names, whatever the case of its letters: those whose
\* id, slug or name it is
StationsNamed(identifier) ==
    {k \in 1..Len(WisconetStations) :
        Lower(identifier) \in {Lower(WisconetStations[k].station_id),
                               Lower(WisconetStations[k].station_slug),
                               Lower(WisconetStations[k].station_name)}}

\* the stations asked for, in the order of the identifiers, those of no station left out
RECURSIVE StationsAsked(_)
StationsAsked(identifiers) ==
    IF identifiers = <<>> THEN <<>>
    ELSE (IF StationsNamed(Head(identifiers)) = {} THEN <<>>
          ELSE <<WisconetStations[CHOOSE k \in StationsNamed(Head(identifiers)) : TRUE]>>)
         \o StationsAsked(Tail(identifiers))

\* the table of what the remote holds of a station for the range asked, the range
\* read on the station's clock (None when it holds nothing)
TableOfStation(st, start, end, names) ==
    LET lo == datetime_at_station_in_utc(st, start)
        hi == datetime_at_station_in_utc(st, end)
    IN  IF lo >= hi THEN NoData
        ELSE bulk_measures_to_df(
                 RemoteAnswer(RequestParams(st.station_id, lo, hi, Some(names))),
                 st.station_timezone, st.station_id)

\* C20: get_data resolves each identifier against id, slug and name whatever the
\* case, leaves out those of no station, and returns the rows of every resolved
\* station that has data, station after station in the order asked, each row with the
\* station_id of its station; it returns None when no resolved station has data.
C20_GetDataResolvesAndTags ==
    (i_pc = "done" /\ i_call.op = "get_data") =>
        LET asked == StationsAsked(i_call.station_ids)
            tables == SeqMap(LAMBDA st : TableOfStation(st, i_call.start_time,
                                              i_call.end_time, i_call.fields), asked)
            withData == SelectSeq(tables, LAMBDA df : df.kind = "DataFrame")
        IN  /\ i_result.kind = (IF withData = <<>> THEN "None" ELSE "DataFrame")
            /\ i_result.rows = Concat(SeqMap(LAMBDA df : df.rows, withData))
            /\ \A k \in 1..Len(i_result.rows) :
                  \E j \in 1..Len(asked) :
                      /\ i_result.rows[k].station_id = asked[j].station_id
                      /\ i_result.rows[k].collection_time.tz = asked[j].station_timezone
                      /\ Instant(i_result.rows[k].collection_time)
                            >= RemoteFirstInstant(asked[j].station_id)
            /\ asked = <<>> => i_result = NoData

\* two stations asked for by a slug and by an id in other cases, both with data: the
\* rows of the first, then the rows of the second
C20_Witness ==
    /\ i_pc = "done"
    /\ i_call.op = "get_data"
    /\ i_call.station_ids = <<"MAPLE", "altn">>
    /\ i_result.kind = "DataFrame"
    /\ i_result.rows[1].station_id = "MAPL"
    /\ i_result.rows[Len(i_result.rows)].station_id = "ALTN"

\* C4: the number of calls in flight never exceeds max_connections of the limits
\* passed, 5 when none are passed.
C4_InFlightBounded ==
    InFlight <= (IF limits = <<>> THEN 5 ELSE limits[1])

\* no limits passed, six chunks: five calls in flight and the sixth waiting
C4_Witness ==
    /\ pc = "gather"
    /\ limits = <<>>
    /\ Len(task) > DefaultMaxConnections
    /\ InFlight = DefaultMaxConnections
    /\ \E i \in Chunks : task[i] = "waiting"

\* C15: waiting for a pool slot never by itself fails the batch: bulk_fetch raises
\* only when a call that was started has failed.
C15_WaitingNeverFailsBatch ==
    pc = "raised" =>
        /\ result.kind \in {"HTTPStatusError", "TransportError"}
        /\ \A i \in Chunks : task[i] = "failed" => result.kind # "PoolTimeout"

\* more chunks than connections, no limits passed: the calls that were started have
\* not failed, the one that waited for a slot timed out and bulk_fetch raised
C15_Witness ==
    /\ pc = "raised"
    /\ limits = <<>>
    /\ Len(task) > DefaultMaxConnections
    /\ result.kind = "PoolTimeout"
    /\ Cardinality({i \in Chunks : task[i] = "failed"}) = 1
    /\ Cardinality({i \in Chunks : task[i] \in {"cancelled", "done"}}) = Len(task) - 1

\* the whole seconds t with a <= t < b, a and b in ticks
InstantsIn(a, b) == {t \in 0..Epoch(b) : a <= t * TicksPerSec /\ t * TicksPerSec < b}

\* the remote answers the call of every chunk with exactly the instants of the chunk
RemoteAnswersChunkInstants ==
    \A i \in Chunks :
        {AnswersInChunkOrder[i].data[m].collection_time :
            m \in 1..Len(AnswersInChunkOrder[i].data)}
        = InstantsIn(task_start_and_end_dts[i][1], task_start_and_end_dts[i][2])

\* the fields the remote reports per instant for the fields asked
FieldsPerInstant == Len(RemoteAnswer(RequestParams(station.station_id, 0, 0, fields)).fieldlist)

\* C5: the table bulk_fetch returns holds, in order, the seconds from the epoch
\* second of start up to (not including) that of end, each once per field: none
\* twice, none missing. When the remote answers every call with exactly the instants
\* of its chunk, these are the instants of [start, end).
C5_RowsCoverRange ==
    pc = "returned" =>
        LET K == FieldsPerInstant
            lo == Epoch(start_time_utc)
            n == IF Epoch(end_time_utc) > lo /\ start_time_utc < end_time_utc
                 THEN Epoch(end_time_utc) - lo ELSE 0
        IN  /\ result.kind = (IF n * K = 0 THEN "None" ELSE "DataFrame")
            /\ Len(result.rows) = n * K
            /\ \A t \in 1..n : \A k \in 1..K :
                  /\ Instant(result.rows[(t - 1) * K + k].collection_time) = lo + t - 1
                  /\ result.rows[(t - 1) * K + k].id = StationCatalog[k].id
            /\ RemoteAnswersChunkInstants =>
                  /\ Len(result.rows) =
                        Cardinality(InstantsIn(start_time_utc, end_time_utc)) * K
                  /\ \A t \in InstantsIn(start_time_utc, end_time_utc) :
                        Cardinality({r \in 1..Len(result.rows) :
                            Instant(result.rows[r].collection_time) = t}) = K

\* a range of three chunks or more, the last one shorter, answered with exactly the
\* instants of each chunk, both fields reported
C5_Witness ==
    /\ pc = "returned"
    /\ Len(task_start_and_end_dts) >= 3
    /\ duration_days > 1
    /\ (end_time_utc - start_time_utc) % timedelta(duration_days) # 0
    /\ RemoteAnswersChunkInstants
    /\ FieldsPerInstant = 2
    /\ result.kind = "DataFrame"
    /\ Len(result.rows) = Cardinality(InstantsIn(start_time_utc, end_time_utc)) * 2

\* C21: WisconetStation.fetch_data returns None both when no data is found for the
\* range and when an error occurs during the fetch: a call that has ended has
\* returned, it returned None if the remote had no data for the range, and it
\* returned None if the request failed.
C21_FetchDataNoneOnError ==
    (i_call.op = "fetch_data" /\ i_pc \in {"done", "raised"}) =>
        /\ i_pc = "done"
        /\ RemoteAnswer(i_requests[1]).data = <<>> => i_result = NoData
        /\ i_result.kind \notin {"DataFrame", "None"} => i_result = NoData

\* a fetch_data call whose request was answered with an error status has ended
C21_Witness ==
    /\ i_call.op = "fetch_data"
    /\ i_pc = "raised"
    /\ i_result.kind = "HTTPStatusError"

\* a field matches a criterion when its attribute for the criterion's class has the
\* criterion's value
MatchesCriterion(field, criterion) ==
    field[criteria_type_to_field[criterion.class]] = criterion.value

\* C22: filter_fields returns the standard_name of exactly the fields that match all
\* criteria, in the order of the list; so when both Units.CELSIUS and
\* Units.FAHRENHEIT are given no field (each has one final_units value) is returned.
C22_FilterMatchesAllCriteria ==
    (q_call.op = "filter_fields" /\ q_pc = "done") =>
        q_result =
            SeqMap(LAMBDA field : field.standard_name,
                   SelectSeq(q_call.fields,
                             LAMBDA field :
                                 \A k \in 1..Len(q_call.criteria) :
                                     MatchesCriterion(field, q_call.criteria[k])))

\* both units are given, the list holds fields of either unit, and names are returned
C22_Witness ==
    /\ q_call.op = "filter_fields"
    /\ q_pc = "done"
    /\ q_call.fields = FilterCatalog
    /\ q_call.criteria = <<EnumMember("Units", "celsius"), EnumMember("Units", "fahrenheit")>>
    /\ q_result # <<>>

\* the stations of the call within the range given (all of them if none is given)
WithinRange ==
    {k \in 1..Len(q_call.stations) :
        q_call.range # <<>> =>
            distance_to_point(q_call.stations[k], q_call.lat, q_call.lon) <= q_call.range[1]}

\* C23: Wisconet.nearest_stations returns (station, distance) pairs sorted by
\* ascending distance, only stations whose distance is at most range whenever a
\* range is given, at most n pairs whenever n is given (n >= 0, range >= 0), and
\* the n kept are the n nearest: no station within range that was left out is
\* nearer than one returned, and none is left out while fewer than n are returned.
C23_NearestStations ==
    (q_call.op = "nearest_stations" /\ q_pc = "done") =>
        LET returned == {k \in 1..Len(q_call.stations) :
                            \E j \in 1..Len(q_result) : q_result[j][1] = q_call.stations[k]}
            Distance(k) == distance_to_point(q_call.stations[k], q_call.lat, q_call.lon)
        IN  /\ \A k \in 1..Len(q_result) :
                   /\ \E j \in 1..Len(q_call.stations) : q_call.stations[j] = q_result[k][1]
                   /\ q_result[k][2] = distance_to_point(q_result[k][1], q_call.lat, q_call.lon)
            /\ \A k \in 1..Len(q_result) - 1 : q_result[k][2] <= q_result[k + 1][2]
            /\ Cardinality(returned) = Len(q_result)
            /\ returned \subseteq WithinRange
            /\ q_call.n # <<>> => Len(q_result) <= q_call.n[1]
            /\ \A k \in WithinRange \ returned :
                   /\ q_call.n # <<>> /\ Len(q_result) = q_call.n[1]
                   /\ \A j \in returned : Distance(j) <= Distance(k)

\* n = 0 is given and the call has returned pairs
C23_Witness ==
    /\ q_call.op = "nearest_stations"
    /\ q_pc = "done"
    /\ q_call.n = Some(0)
    /\ q_result # <<>>

\* the remote calls of the batch so far
NumCalls == SumSeq([i \in Chunks |-> Len(requests[i])])

IsEpochSecondOf(n, dt) ==
    /\ n \in Nat
    /\ n * TicksPerSec <= dt
    /\ dt < (n + 1) * TicksPerSec

\* C25: the start_time and end_time transmitted for each chunk are integer UTC
\* epoch seconds (those of the chunk's ends); the end_time sent for chunk i equals
\* the start_time sent for chunk i+1, the first start_time is the epoch second of
\* the requested start and the last end_time that of the requested end.
C25_EpochSecondsContiguous ==
    (pc \in {"gather", "returned", "raised"} /\ task_start_and_end_dts # <<>>) =>
        LET n == Len(task_start_and_end_dts)
        IN  /\ \A i \in Chunks :
                   /\ IsEpochSecondOf(ParamsOf(i).start_time, task_start_and_end_dts[i][1])
                   /\ IsEpochSecondOf(ParamsOf(i).end_time, task_start_and_end_dts[i][2])
                   /\ \A k \in 1..Len(requests[i]) : requests[i][k] = ParamsOf(i)
            /\ \A i \in 1..(n - 1) : ParamsOf(i).end_time = ParamsOf(i + 1).start_time
            /\ IsEpochSecondOf(ParamsOf(1).start_time, start_time_utc)
            /\ IsEpochSecondOf(ParamsOf(n).end_time, end_time_utc)

\* a batch of three chunks, all sent, whose ends do not fall on whole seconds
C25_Witness ==
    /\ pc = "returned"
    /\ Len(task_start_and_end_dts) >= 3
    /\ \A i \in Chunks : requests[i] # <<>>
    /\ start_time_utc % TicksPerSec # 0
    /\ end_time_utc % TicksPerSec # 0

\* the list given to fetch_data_multiple_stations, and its stations already fetched
StationList ==
    IF i_call.op = "get_data" THEN ResolvedStations(WisconetStations, i_call.station_ids)
    ELSE i_call.stations
StationsFetched == SubSeq(StationList, 1, Len(StationList) - Len(i_remaining))

\* the tables kept of a list of stations: those that are not None, in list order
TablesKept(stations) ==
    SelectSeq(SeqMap(LAMBDA st : TableOfStation(st, i_call.start_time, i_call.end_time,
                                                i_call.fields), stations),
              LAMBDA df : df.kind = "DataFrame")

\* C26: fetch_data_multiple_stations processes stations one at a time in list
\* order: while the batch of a station runs, it is the batch of the first station
\* not yet fetched, every request sent is for that station and the tables of all
\* stations before it are complete; between two batches no call is pending; the
\* rows of the result are those of the stations in list order; and a failure at one
\* station raises with no table, whatever was fetched before.
C26_StationsOneAtATime ==
    (/\ i_call.op \in {"get_data", "fetch_data_multiple_stations"}
     /\ i_pc \in {"loop", "bulk_fetch", "done", "raised"}) =>
        /\ Len(i_remaining) <= Len(StationList)
        /\ i_remaining = SubSeq(StationList, Len(StationsFetched) + 1, Len(StationList))
        /\ i_dfs = TablesKept(StationsFetched)
        /\ i_pc \in {"bulk_fetch", "raised"} =>
               /\ i_remaining # <<>>
               /\ station = Head(i_remaining)
               /\ \A i \in 1..Len(requests) : \A k \in 1..Len(requests[i]) :
                      requests[i][k].station_id = Head(i_remaining).station_id
        /\ i_pc \in {"loop", "done"} =>
               \A i \in 1..Len(task) : task[i] = "done"
        /\ i_pc = "done" =>
               /\ i_remaining = <<>>
               /\ i_result.rows = Concat(SeqMap(LAMBDA df : df.rows, TablesKept(StationList)))
        /\ i_pc = "raised" =>
               /\ i_result.kind \notin {"DataFrame", "None"}
               /\ i_result.rows = <<>>

\* the batch of the second station, of several chunks, failed after one of its
\* calls was answered and after the table of the first station was kept
C26_Witness ==
    /\ i_call.op = "fetch_data_multiple_stations"
    /\ i_pc = "raised"
    /\ Len(task) >= 3
    /\ \E i \in 1..Len(task) : task[i] = "done"
    /\ Len(StationsFetched) = 1
    /\ i_dfs # <<>>
    /\ i_result.rows = <<>>

\* the ids of the measures of a record
MeasureIds(bms) ==
    UNION {{bms.data[m].measures[k][1] : k \in 1..Len(bms.data[m].measures)} :
              m \in 1..Len(bms.data)}

\* for each row of the table of a list, in order, the record the row comes from
RowOwners(bulk_measures_list) ==
    Concat([j \in 1..Len(bulk_measures_list) |->
               [k \in 1..NumPairs(bulk_measures_list[j]) |-> j]])

\* C27: when several BulkMeasures are reshaped together each row's Field metadata
\* is resolved only against the fieldlist of the record that contains the row: the
\* call raises exactly when some record has a measure whose field_id is not in its
\* own fieldlist (be it in another record's), and otherwise every row carries the
\* metadata of a Field of its own record's fieldlist with the row's id.
C27_OwnFieldlistOnly ==
    (r_pc = "done" /\ Len(r_list) >= 2) =>
        LET unknown == {j \in 1..Len(r_list) : ~(MeasureIds(r_list[j]) \subseteq CatalogIds(r_list[j]))}
            owners == RowOwners(r_list)
        IN  /\ unknown # {} <=> r_multi.kind = "KeyError"
            /\ unknown = {} =>
                   /\ Len(r_multi.rows) = Len(owners)
                   /\ \A k \in 1..Len(r_multi.rows) :
                          \E f \in 1..Len(r_list[owners[k]].fieldlist) :
                              /\ r_list[owners[k]].fieldlist[f].id = r_multi.rows[k].id
                              /\ r_list[owners[k]].fieldlist[f].standard_name
                                    = r_multi.rows[k].standard_name

\* a measure of the first record has a field_id that only the second record's
\* fieldlist holds, and the call raised
C27_Witness ==
    /\ r_pc = "done"
    /\ Len(r_list) = 2
    /\ \E id \in MeasureIds(r_list[1]) :
          /\ id \notin CatalogIds(r_list[1])
          /\ id \in CatalogIds(r_list[2])
    /\ r_multi.kind = "KeyError"

\* the list fetch_data is given for the fields of a bulk_fetch call: the same list,
\* the empty list for None (both send no fields parameter)
FieldsListOf(optional_list) == IF optional_list = <<>> THEN <<>> ELSE optional_list[1]

\* the table of one unchunked fetch of the range of the bulk_fetch call
UnchunkedTable == FetchDataTable(station, start_time, end_time, FieldsListOf(fields))

\* C28: for the same station, range, fields and remote data (the remote answering
\* each call with the instants in [sub_start, sub_end)), the table bulk_fetch
\* returns is, whatever the chunk length, the table a single unchunked fetch of
\* the whole range (WisconetStation.fetch_data) returns: the same rows in the same
\* order, None when that is None.
C28_ChunkedEqualsUnchunked ==
    pc = "returned" => result = UnchunkedTable

\* a range cut in three chunks or more, with rows to return
C28_Witness ==
    /\ pc = "returned"
    /\ Len(task_start_and_end_dts) >= 3
    /\ duration_days = 2
    /\ fields # <<>>
    /\ Len(result.rows) >= 3
    /\ result = UnchunkedTable

\* C29: for any sequence of fields() and get_field_names() calls on one
\* WisconetStation the remote field catalog is requested at most once, whatever
\* catalog the first request returned (an empty one included), and every call
\* returns the list fetched first (get_field_names: its names, filtered).
C29_CatalogRequestedOnce ==
    /\ Len(w_fetched) <= 1
    /\ w_last.op = "fields" => w_last.returned = w_fetched[1]
    /\ w_last.op = "get_field_names" =>
           w_last.returned = get_field_names(w_fetched[1], w_last.filter)

\* the first request returned an empty catalog and a later call requested it again
C29_Witness ==
    /\ Len(w_fetched) = 2
    /\ w_fetched[1] = <<>>
    /\ w_fetched[2] # <<>>
    /\ w_last.returned # <<>>

\* the clients of the bulk_fetch calls that have ended: all of them, but the last
\* one while a call runs
ClientsOfEndedCalls ==
    IF pc = "gather" THEN 1..(Len(clients) - 1) ELSE 1..Len(clients)

\* C30: each bulk_fetch call creates its own HTTP client and connection pool and
\* has closed it by the time it returns or raises: after any sequence of
\* bulk_fetch calls no pool created by an earlier call is still open, and no remote
\* call of an earlier batch is still in flight.
C30_ClientClosedOnReturn ==
    /\ pc = "gather" => Len(clients) >= 1
    /\ pc # "gather" => \A i \in 1..Len(task) : task[i] # "in_flight"
    /\ \A k \in ClientsOfEndedCalls : clients[k].is_closed

\* the batch of a second station runs on a client of its own while the client of
\* the first station's call, which has returned, was never closed
C30_Witness ==
    /\ i_call.op = "fetch_data_multiple_stations"
    /\ pc = "gather"
    /\ Len(clients) = 2
    /\ \E i \in 1..Len(task) : task[i] = "in_flight"
    /\ ~clients[1].is_closed

====
